---- MODULE Spec2Model ----
(***************************************************************************)
(* Model of the storage migration layer (local-storage-migration.ts):      *)
(* the schema validator hasValidIndexedDBSchema, the ProviderDB adapter    *)
(* over the legacy IndexedDB store, and the LocalStorageMigration engine   *)
(* that copies profiles, provider configs and metadata into the            *)
(* localStorage-backed store.                                              *)
(*                                                                         *)
(* Every engine operation is an async function.  One action of the model   *)
(* is one resumption of such a function: the completion of the call it is  *)
(* awaiting followed by the synchronous code up to its next await.  The    *)
(* adapter methods test the module-level flag indexedDBSchemaValid when    *)
(* they are called, and touch the database when their open request         *)
(* completes; the value of the flag at call time is kept in the frame      *)
(* field "guard".                                                          *)
(***************************************************************************)
EXTENDS Integers, Sequences, FiniteSets, TLC

\* Number of engine operations invoked in one behaviour.
MaxCalls == 2

\* Number of requests (opens, reads, writes) that fail in one behaviour.
MaxFaults == 2

\* The schema version that marks the localStorage store as migrated.
TargetVersion == 2

\* requiredStores in hasValidIndexedDBSchema.
RequiredStores == {"profiles", "provider_configs", "app_metadata"}

\* Async tasks that may run engine operations; task 1 runs the sequential calls.
Tasks == {1, 2}
SeqTasks == {1}

\* The public operations of LocalStorageMigration, and the adapter's
\* getDefaultProfile.
EngineOps == {"isMigrationNeeded", "migrate", "clearIndexedDB",
              "migrateAndCleanup", "getMigrationStatus", "exportIndexedDBData"}
AdapterOps == {"getDefaultProfile"}
Ops == EngineOps \cup AdapterOps

(***************************************************************************)
(* Legacy store contents.  A profile is [id, isDefault]; a provider config *)
(* is [id, profileId, providerId, apiKey].  Ids are numbers so that the    *)
(* key order of getAll() is the order of the ids; apiKey is "null" or the  *)
(* name of an encrypted envelope.                                          *)
(***************************************************************************)
Profile(i, d) == [id |-> i, isDefault |-> d]
Config(i, p, prov, k) == [id |-> i, profileId |-> p, providerId |-> prov, apiKey |-> k]

\* app_metadata: active_profile_id (0: no such entry) and schema_version
\* (0: no such entry).
Meta(a, v) == [active_profile_id |-> a, schema_version |-> v]

FullProfiles == {Profile(1, TRUE), Profile(2, FALSE)}
FullConfigs == {Config(1, 1, "openai", "env1"), Config(2, 2, "openai", "null"),
                Config(3, 2, "anthropic", "env2")}
FullMeta == Meta(1, 1)

\* Two profiles of which none is the default, and two provider configs of
\* one profile for one provider.
OtherProfiles == {Profile(2, FALSE), Profile(3, FALSE)}
SharedConfigs == {Config(2, 2, "openai", "null"), Config(4, 2, "openai", "env1"),
                  Config(5, 3, "anthropic", "env2")}

\* The contents of a legacy store that has all its object stores.
Fixtures ==
  { [profiles |-> {}, configs |-> {}, meta |-> Meta(0, 0)],
    [profiles |-> {Profile(1, TRUE)}, configs |-> {Config(1, 1, "openai", "env1")},
     meta |-> FullMeta],
    [profiles |-> {Profile(2, FALSE)}, configs |-> {}, meta |-> Meta(0, 1)],
    [profiles |-> FullProfiles, configs |-> FullConfigs, meta |-> FullMeta],
    [profiles |-> {Profile(1, TRUE), Profile(2, TRUE)}, configs |-> FullConfigs,
     meta |-> Meta(0, 0)],
    [profiles |-> OtherProfiles, configs |-> SharedConfigs, meta |-> Meta(2, 1)] }

NoMeta == [active_profile_id |-> 0, schema_version |-> 0]

VARIABLES
  indexedDBDefined,      \* typeof indexedDB !== "undefined"; ProviderDB is non-null
  objectStoreNames,      \* db.objectStoreNames of "ai-settings-db"
  idbProfiles,           \* the "profiles" object store
  idbConfigs,            \* the "provider_configs" object store
  idbMeta,               \* the "app_metadata" object store
  indexedDBSchemaValid,  \* module-level flag
  loadPending,           \* the module-load hasValidIndexedDBSchema().then(...) has not run
  lsAvailable,           \* LocalStorageProvider.isAvailable()
  lsVersion,             \* LocalStorageProvider schema version
  lsProfiles,            \* profiles saved in the localStorage store
  lsConfigs,             \* provider configs saved in the localStorage store
  lsMeta,                \* metadata saved in the localStorage store
  task,                  \* per task: the frame of the operation in flight
  calls,                 \* operations invoked so far
  lastTx,                \* the last db.transaction(...) call made
  lastProbe,             \* the last run of hasValidIndexedDBSchema
  faults                 \* requests that have failed so far

vars == <<indexedDBDefined, objectStoreNames, idbProfiles, idbConfigs, idbMeta,
          indexedDBSchemaValid, loadPending, lsAvailable, lsVersion, lsProfiles,
          lsConfigs, lsMeta, task, calls, lastTx, lastProbe, faults>>

idbVars == <<indexedDBDefined, objectStoreNames, idbProfiles, idbConfigs, idbMeta>>
lsVars == <<lsAvailable, lsVersion, lsProfiles, lsConfigs, lsMeta>>

(***************************************************************************)
(* Helpers.                                                                *)
(***************************************************************************)
RECURSIVE SortById(_)
SortById(S) ==
  IF S = {} THEN <<>>
  ELSE LET m == CHOOSE r \in S : \A q \in S : r.id <= q.id
       IN <<m>> \o SortById(S \ {m})

Range(s) == { s[i] : i \in 1..Len(s) }

\* Variant: the secret is passed decrypted.
ConfigArgDecrypted(c) ==
  [profileId |-> c.profileId, providerId |-> c.providerId,
   apiKey |-> IF c.apiKey = "null" THEN "null" ELSE "plaintext"]

\* The part of a provider config that migrate() passes to saveProviderConfig.
ConfigArg(c) == [profileId |-> c.profileId, providerId |-> c.providerId, apiKey |-> c.apiKey]

(***************************************************************************)
(* LocalStorageProvider, the migration target.  A store that is not        *)
(* available reads as empty and ignores writes.  saveProfile replaces the  *)
(* record with the same id, saveProviderConfig the record with the same    *)
(* profile and provider; both append when there is none.                   *)
(***************************************************************************)
RECURSIVE SaveProfile(_, _)
SaveProfile(s, p) ==
  IF s = <<>> THEN <<p>>
  ELSE IF Head(s).id = p.id THEN <<p>> \o Tail(s)
  ELSE <<Head(s)>> \o SaveProfile(Tail(s), p)

ConfigKeyOf(c) == <<c.profileId, c.providerId>>

RECURSIVE SaveProviderConfig(_, _)
SaveProviderConfig(s, c) ==
  IF s = <<>> THEN <<c>>
  ELSE IF ConfigKeyOf(Head(s)) = ConfigKeyOf(c) THEN <<c>> \o Tail(s)
  ELSE <<Head(s)>> \o SaveProviderConfig(Tail(s), c)

LsGetSchemaVersion == IF lsAvailable THEN lsVersion ELSE 0

LsGetAllProfiles == IF lsAvailable THEN lsProfiles ELSE <<>>

LsGetProviderConfigsByProfile(pid) ==
  IF lsAvailable THEN SelectSeq(lsConfigs, LAMBDA c : c.profileId = pid) ELSE <<>>

\* A request may fail while fewer than MaxFaults requests have failed.
MayFail == faults < MaxFaults

Charged(o) ==
  IF o \in {"threw", "error", "blocked", "throws", "openError", "requestError"}
  THEN faults + 1 ELSE faults

\* A call on the localStorage store completes or throws.
LsOutcomes == IF MayFail THEN {"ok", "threw"} ELSE {"ok"}

(***************************************************************************)
(* hasValidIndexedDBSchema.                                                *)
(***************************************************************************)
\* Variant: requiredStores.some(...).
HasSomeStore(existing) == \E s \in RequiredStores : s \in existing

\* requiredStores.every(store => existingStores.includes(store))
HasAllStores(existing) == \A s \in RequiredStores : s \in existing

\* The open request succeeds, fails, is blocked, or reading the store names throws.
OpenOutcomes == {"success", "error", "blocked", "throws"}

ValidatorOutcomes ==
  IF ~indexedDBDefined THEN {"undefined"}
  ELSE IF MayFail THEN OpenOutcomes ELSE {"success"}

\* Variant: request.onblocked resolves like request.onsuccess.
HasValidIndexedDBSchemaBlockedOk(o) ==
  IF o \in {"success", "blocked"} THEN HasAllStores(objectStoreNames) ELSE FALSE

HasValidIndexedDBSchema(o) ==
  IF o = "success" THEN HasAllStores(objectStoreNames) ELSE FALSE

\* How the last run of the validator ended: "resolved" with a value, or "threw".
NoProbe == [open |-> "none", settled |-> "none", value |-> FALSE]

Probed(o) == [open |-> o, settled |-> "resolved", value |-> HasValidIndexedDBSchema(o)]

\* Variant: if (!ProviderDB && !schemaValid).
NoLegacyStoreBoth(schemaValid) == ~indexedDBDefined /\ ~schemaValid

\* Variant: if (!ProviderDB), as before the validator was introduced.
NoLegacyStoreUnchecked(schemaValid) == ~indexedDBDefined

\* if (!ProviderDB || !schemaValid)
NoLegacyStore(schemaValid) == ~indexedDBDefined \/ ~schemaValid

(***************************************************************************)
(* ProviderDB.  An adapter method called while the flag is false returns   *)
(* its default without opening the database.  Otherwise the open request   *)
(* may fail; if it succeeds the method starts a transaction on its object  *)
(* store, which throws when the store does not exist, and issues a request *)
(* that may fail.                                                          *)
(***************************************************************************)
AdapterOutcomes(guard, store) ==
  IF ~guard THEN {"default"}
  ELSE IF store \in objectStoreNames
       THEN IF MayFail THEN {"ok", "openError", "requestError"} ELSE {"ok"}
       ELSE IF MayFail THEN {"openError", "txThrows"} ELSE {"txThrows"}

Rejected(o) == o \in {"openError", "requestError", "txThrows", "threw"}

GetAllProfiles(o) == IF o = "ok" THEN SortById(idbProfiles) ELSE <<>>

GetProviderConfigsByProfile(o, pid) ==
  IF o = "ok" THEN SortById({c \in idbConfigs : c.profileId = pid}) ELSE <<>>

\* result ? result.value : null
GetMetadataActiveProfileId(o) == IF o = "ok" THEN idbMeta.active_profile_id ELSE 0

\* result?.value || 0
GetSchemaVersion(o) == IF o = "ok" THEN idbMeta.schema_version ELSE 0

\* The last transaction after an adapter call of frame f on an object store,
\* with the number of the invocation that started it.
NoTx == [op |-> "none", store |-> "none", present |-> FALSE, validated |-> FALSE, call |-> 0]

TxLogged(f, o, store) ==
  IF o \in {"ok", "requestError", "txThrows"}
  THEN [op |-> f.op, store |-> store, present |-> store \in objectStoreNames,
        validated |-> f.validated, call |-> calls]
  ELSE lastTx

(***************************************************************************)
(* Frames.  The frame of a task holds the operation it runs, the await it  *)
(* is suspended at (pc), the locals of the operation, its result, and      *)
(* history fields that record what the call has done so far.               *)
(***************************************************************************)
NoResult ==
  [outcome |-> "none", success |-> FALSE, migratedItems |-> 0, value |-> FALSE,
   needsMigration |-> FALSE, localStorageAvailable |-> FALSE, localStorageItems |-> 0,
   indexedDBAvailable |-> FALSE, indexedDBItems |-> 0, warning |-> FALSE,
   doc |-> [profiles |-> <<>>, providers |-> {}, active_profile_id |-> 0,
            schema_version |-> 0, metadataRead |-> FALSE]]

NoSnapshot ==
  [lsVersion |-> 0, lsProfiles |-> <<>>, lsConfigs |-> <<>>, lsMeta |-> NoMeta,
   idbProfiles |-> {}, idbConfigs |-> {}]

Snapshot ==
  [lsVersion |-> lsVersion, lsProfiles |-> lsProfiles, lsConfigs |-> lsConfigs,
   lsMeta |-> lsMeta, idbProfiles |-> idbProfiles, idbConfigs |-> idbConfigs]

InitFrame ==
  [op |-> "none", pc |-> "idle", guard |-> FALSE,
   profiles |-> <<>>, idx |-> 0, configs |-> <<>>, cidx |-> 0,
   migratedItems |-> 0, providerConfigsMigrated |-> 0, activeProfileId |-> 0,
   legacyVersion |-> 0,
   schemaValid |-> FALSE, indexedDBAvailable |-> FALSE, localStorageAvailable |-> FALSE,
   needsMigration |-> FALSE, localStorageItems |-> 0, indexedDBItems |-> 0,
   providers |-> {}, mres |-> NoResult, result |-> NoResult,
   \* history
   pre |-> NoSnapshot,          \* both stores when the operation was invoked
   prevOp |-> "none",           \* the operation this task ran before this one
   prevResult |-> NoResult,     \* and its result
   prevIoFailed |-> FALSE,      \* and whether a request failed during it
   ioFailed |-> FALSE,          \* a request failed during this call
   validated |-> FALSE,         \* the validator returned true in this call
   caught |-> FALSE,            \* migrate()'s outer catch block ran
   countAtCatch |-> 0,          \* migratedItems when it ran
   versionSet |-> FALSE,        \* this call completed setSchemaVersion(2)
   deleteProfileCalls |-> {},   \* profiles passed to deleteProfile
   deleteConfigCalls |-> {},    \* configs passed to deleteProviderConfig
   verdict |-> "none",          \* what the validator returned in this call
   catchMark |-> "none",        \* how setSchemaVersion(2) in isMigrationNeeded's catch ended
   cleanupCalled |-> FALSE,     \* migrateAndCleanup went on to clearIndexedDB
   clearProfiles |-> <<>>,      \* the profiles clearIndexedDB enumerated
   deleteFailed |-> {},         \* profiles whose deleteProfile was rejected
   probeFailed |-> FALSE,       \* a run of the validator failed during this call
   lsCountFailed |-> FALSE,     \* getMigrationStatus caught a localStorage counting error
   idbCountFailed |-> FALSE,    \* getMigrationStatus caught a legacy-store counting error
   savedProfiles |-> {},        \* ids of the profiles this call has passed to saveProfile
   savedConfigs |-> {},         \* saveProviderConfig arguments, each with its legacy record
   copied |-> FALSE,            \* migrate() finished both of its loops
   metaFailed |-> FALSE,        \* the inner catch block around the metadata ran
   readFailed |-> FALSE,        \* export's read of profiles or configs was rejected
   clearAborted |-> "none",     \* the request whose rejection ended clearIndexedDB
   markThrew |-> FALSE]         \* a setSchemaVersion(2) of this call threw

\* The frame of a call that has settled: the locals are gone, the result and
\* the history remain.
Settled(f, r) ==
  [InitFrame EXCEPT !.op = f.op, !.pc = "done", !.result = r,
                    !.pre = f.pre, !.prevOp = f.prevOp, !.prevResult = f.prevResult,
                    !.prevIoFailed = f.prevIoFailed,
                    !.ioFailed = f.ioFailed, !.validated = f.validated,
                    !.caught = f.caught, !.countAtCatch = f.countAtCatch,
                    !.versionSet = f.versionSet,
                    !.deleteProfileCalls = f.deleteProfileCalls,
                    !.deleteConfigCalls = f.deleteConfigCalls,
                    !.mres = f.mres, !.verdict = f.verdict,
                    !.catchMark = f.catchMark, !.cleanupCalled = f.cleanupCalled,
                    !.clearProfiles = f.clearProfiles, !.deleteFailed = f.deleteFailed,
                    !.probeFailed = f.probeFailed, !.lsCountFailed = f.lsCountFailed,
                    !.idbCountFailed = f.idbCountFailed,
                    !.savedProfiles = f.savedProfiles, !.savedConfigs = f.savedConfigs,
                    !.copied = f.copied, !.metaFailed = f.metaFailed,
                    !.readFailed = f.readFailed, !.clearAborted = f.clearAborted,
                    !.markThrew = f.markThrew]

Returned == [NoResult EXCEPT !.outcome = "returned"]
Threw == [NoResult EXCEPT !.outcome = "threw"]

(***************************************************************************)
(* Init: each legacy store the engine can meet, and a localStorage store   *)
(* that is unavailable, fresh, or already at the target version.           *)
(***************************************************************************)
Init ==
  /\ indexedDBDefined \in BOOLEAN
  /\ objectStoreNames \in SUBSET RequiredStores
  /\ ~indexedDBDefined => objectStoreNames = {}
  /\ IF objectStoreNames = RequiredStores
     THEN \E x \in Fixtures : /\ idbProfiles = x.profiles
                                /\ idbConfigs = x.configs
                                /\ idbMeta = x.meta
     ELSE /\ idbProfiles = IF "profiles" \in objectStoreNames THEN FullProfiles ELSE {}
          /\ idbConfigs = IF "provider_configs" \in objectStoreNames THEN FullConfigs ELSE {}
          /\ idbMeta = IF "app_metadata" \in objectStoreNames THEN FullMeta ELSE NoMeta
  /\ indexedDBSchemaValid = FALSE
  /\ loadPending = indexedDBDefined
  /\ lsAvailable \in BOOLEAN
  /\ lsVersion \in IF lsAvailable THEN {0, TargetVersion} ELSE {0}
  /\ lsProfiles = <<>>
  /\ lsConfigs = <<>>
  /\ lsMeta = [active_profile_id |-> 0, schema_version |-> -1]
  /\ task = [t \in Tasks |-> InitFrame]
  /\ calls = 0
  /\ lastTx = NoTx
  /\ lastProbe = NoProbe
  /\ faults = 0

(***************************************************************************)
(* How the operations return, and how a nested call resumes its caller.    *)
(***************************************************************************)
Failed(f) == [f EXCEPT !.ioFailed = TRUE]

\* Variant: the flag keeps the value it has.
FlagKept(v) == indexedDBSchemaValid' = indexedDBSchemaValid

\* indexedDBSchemaValid = schemaValid
FlagRefreshed(v) == indexedDBSchemaValid' = v

\* The open request of a validator run failed, was blocked, or threw.
ProbeFailed(f) == [Failed(f) EXCEPT !.probeFailed = TRUE]

\* const schemaValid = await hasValidIndexedDBSchema()
Verdict(f, v) == [f EXCEPT !.verdict = IF v THEN "valid" ELSE "invalid"]

\* getMigrationStatus: the returned report.
GmsReturn(f) ==
  Settled(f, [Returned EXCEPT !.needsMigration = f.needsMigration,
                              !.localStorageAvailable = f.localStorageAvailable,
                              !.localStorageItems = f.localStorageItems,
                              !.indexedDBAvailable = f.indexedDBAvailable,
                              !.indexedDBItems = f.indexedDBItems])

\* getMigrationStatus: if (indexedDBAvailable && ProviderDB && schemaValid),
\* with the flag as ProviderDB.getAllProfiles() finds it.
GmsStartIdbCount(f, flag) ==
  IF f.indexedDBAvailable /\ indexedDBDefined /\ f.schemaValid
  THEN [f EXCEPT !.pc = "g_idbProfiles", !.guard = flag]
  ELSE GmsReturn(f)

\* isMigrationNeeded returns value; inside getMigrationStatus the caller
\* goes on to count the localStorage items.
NeededReturn(f, value, flag) ==
  IF f.op = "isMigrationNeeded"
  THEN Settled(f, [Returned EXCEPT !.value = value])
  ELSE LET g == [f EXCEPT !.needsMigration = value]
       IN IF g.localStorageAvailable
          THEN [g EXCEPT !.pc = "g_lsProfiles"]
          ELSE GmsStartIdbCount(g, flag)

\* Variant: migrateAndCleanup reports a failure when clearIndexedDB throws.
ClearReturnFailureOnThrow(f, threw) ==
  IF f.op = "clearIndexedDB"
  THEN Settled(f, IF threw THEN Threw ELSE Returned)
  ELSE Settled(f, [Returned EXCEPT !.success = ~threw, !.warning = threw])

\* clearIndexedDB returns or throws; migrateAndCleanup reports success in
\* both cases, with a warning in the second.
ClearReturn(f, threw) ==
  IF f.op = "clearIndexedDB"
  THEN Settled(f, IF threw THEN Threw ELSE Returned)
  ELSE Settled(f, [Returned EXCEPT !.success = TRUE, !.warning = threw])

\* Variant: migrateAndCleanup goes on to clearIndexedDB whatever migrate
\* returned.
MigrateReturnAlwaysCleanup(f, r) ==
  IF f.op = "migrate"
  THEN Settled([f EXCEPT !.mres = r], r)
  ELSE [f EXCEPT !.mres = r, !.cleanupCalled = TRUE, !.pc = "c_validate", !.guard = FALSE,
                 !.profiles = <<>>, !.idx = 0, !.configs = <<>>, !.cidx = 0,
                 !.migratedItems = 0, !.providerConfigsMigrated = 0,
                 !.activeProfileId = 0, !.legacyVersion = 0]

\* migrate returns r; migrateAndCleanup returns a failure as it is and goes
\* on to clearIndexedDB after a success.
MigrateReturn(f, r) ==
  IF f.op = "migrate" \/ ~r.success
  THEN Settled([f EXCEPT !.mres = r], r)
  ELSE [f EXCEPT !.mres = r, !.cleanupCalled = TRUE, !.pc = "c_validate", !.guard = FALSE,
                 !.profiles = <<>>, !.idx = 0, !.configs = <<>>, !.cidx = 0,
                 !.migratedItems = 0, !.providerConfigsMigrated = 0,
                 !.activeProfileId = 0, !.legacyVersion = 0]

\* The result of migrate()'s early returns and of its catch block.
FailureResult(n) == [Returned EXCEPT !.success = FALSE, !.migratedItems = 0]

\* Variant: success only when something was migrated.
SuccessResultIfAny(n) == [Returned EXCEPT !.success = n > 0, !.migratedItems = n]

\* return { success: true, message, migratedItems }
SuccessResult(n) == [Returned EXCEPT !.success = TRUE, !.migratedItems = n]

\* migrate's catch block, entered with migratedItems = f.migratedItems.
MigrateCatch(f) ==
  MigrateReturn([f EXCEPT !.ioFailed = TRUE, !.caught = TRUE,
                          !.countAtCatch = f.migratedItems],
                FailureResult(f.migratedItems))

(***************************************************************************)
(* Invoking an operation: its synchronous code up to the first await.      *)
(***************************************************************************)
\* Variant: the availability of the localStorage store is not checked.
LocalStorageUnavailableNever == FALSE

\* if (!this.localStorageProvider.isAvailable())
LocalStorageUnavailable == ~lsAvailable

Enter(t, o) ==
  [InitFrame EXCEPT !.op = o, !.pre = Snapshot,
                    !.prevOp = task[t].op, !.prevResult = task[t].result,
                    !.prevIoFailed = task[t].ioFailed]

FirstAwait(f) ==
  CASE f.op = "isMigrationNeeded" -> [f EXCEPT !.pc = "n_getVersion"]
    [] f.op \in {"migrate", "migrateAndCleanup"} ->
         IF LocalStorageUnavailable THEN MigrateReturn(f, FailureResult(0))
         ELSE [f EXCEPT !.pc = "m_validate"]
    [] f.op = "clearIndexedDB" -> [f EXCEPT !.pc = "c_validate"]
    [] f.op = "getMigrationStatus" ->
         [f EXCEPT !.localStorageAvailable = lsAvailable, !.pc = "g_validate"]
    [] f.op = "exportIndexedDBData" -> [f EXCEPT !.pc = "e_validate"]
    [] f.op = "getDefaultProfile" ->
         IF ~indexedDBSchemaValid THEN Settled(f, Threw)
         ELSE [f EXCEPT !.pc = "d_get", !.guard = TRUE]

Invocable(o) == o \in EngineOps \/ indexedDBDefined

Call(t) ==
  /\ calls < MaxCalls
  /\ \A u \in Tasks : task[u].pc \in {"idle", "done"}
  /\ \E o \in Ops :
       /\ Invocable(o)
       /\ task' = [task EXCEPT ![t] = FirstAwait(Enter(t, o))]
  /\ calls' = calls + 1
  /\ UNCHANGED <<idbVars, lsVars, indexedDBSchemaValid, loadPending, lastTx, lastProbe,
                 faults>>

\* hasValidIndexedDBSchema().then(valid => { indexedDBSchemaValid = valid })
\* at module load.
ModuleLoadValidation ==
  /\ loadPending
  /\ loadPending' = FALSE
  /\ \E o \in ValidatorOutcomes :
       /\ faults' = Charged(o)
       /\ indexedDBSchemaValid' = HasValidIndexedDBSchema(o)
       /\ lastProbe' = Probed(o)
       /\ task' = [t \in Tasks |->
            IF o = "success" \/ task[t].pc \in {"idle", "done"} THEN task[t]
            ELSE ProbeFailed(task[t])]
  /\ UNCHANGED <<idbVars, lsVars, calls, lastTx>>

(***************************************************************************)
(* isMigrationNeeded.                                                      *)
(***************************************************************************)
\* Variant: currentVersion > 2.
VersionCurrentStrict(v) == v > TargetVersion

\* currentVersion >= 2
VersionCurrent(v) == v >= TargetVersion

\* LocalStorageProvider.setSchemaVersion(v), which completes or throws.
SetSchemaVersion(v, o) ==
  lsVersion' = IF o = "ok" /\ lsAvailable THEN v ELSE lsVersion

\* Variant: the version is set to the legacy store's schema version.
MarkMigratedAsLegacy(o) == SetSchemaVersion(idbMeta.schema_version, o)

\* Variant: setSchemaVersion(1).
MarkMigratedAsVersion1(o) == SetSchemaVersion(1, o)

\* Variant: the version is left as it is.
MarkMigratedSkipped(o) == lsVersion' = lsVersion

\* await this.localStorageProvider.setSchemaVersion(2)
MarkMigrated(o) == SetSchemaVersion(TargetVersion, o)

VersionSet(f, o) ==
  IF o = "ok" THEN [f EXCEPT !.versionSet = TRUE] ELSE [Failed(f) EXCEPT !.markThrew = TRUE]

NeededGetVersion(t) ==
  /\ task[t].pc = "n_getVersion"
  /\ \E o \in LsOutcomes :
       /\ faults' = Charged(o)
       /\ task' = [task EXCEPT ![t] =
            IF o = "threw" THEN [Failed(@) EXCEPT !.pc = "n_catch"]
            ELSE IF VersionCurrent(LsGetSchemaVersion)
                 THEN NeededReturn(@, FALSE, indexedDBSchemaValid)
                 ELSE [@ EXCEPT !.pc = "n_validate"]]
  /\ UNCHANGED <<idbVars, lsVars, indexedDBSchemaValid, loadPending, calls, lastTx, lastProbe>>

NeededValidate(t) ==
  /\ task[t].pc = "n_validate"
  /\ \E o \in ValidatorOutcomes :
       /\ faults' = Charged(o)
       /\ LET v == HasValidIndexedDBSchema(o)
              f == Verdict(IF o \in {"success", "undefined"} THEN task[t] ELSE ProbeFailed(task[t]),
                           v)
          IN /\ FlagRefreshed(v)
             /\ lastProbe' = Probed(o)
             /\ task' = [task EXCEPT ![t] =
                  IF NoLegacyStore(v)
                  THEN [f EXCEPT !.pc = "n_markMigrated"]
                  ELSE [f EXCEPT !.pc = "n_getProfiles", !.guard = v, !.validated = TRUE]]
  /\ UNCHANGED <<idbVars, lsVars, loadPending, calls, lastTx>>

\* Variant: the legacy store is always taken to be empty.
NoProfilesAlways(ps) == TRUE

\* if (profiles.length === 0)
NoProfiles(ps) == Len(ps) = 0

NeededGetProfiles(t) ==
  /\ task[t].pc = "n_getProfiles"
  /\ \E o \in AdapterOutcomes(task[t].guard, "profiles") :
       /\ faults' = Charged(o)
       /\ lastTx' = TxLogged(task[t], o, "profiles")
       /\ task' = [task EXCEPT ![t] =
            IF Rejected(o) THEN [Failed(@) EXCEPT !.pc = "n_catch"]
            ELSE IF NoProfiles(GetAllProfiles(o)) THEN [@ EXCEPT !.pc = "n_markMigrated"]
            ELSE NeededReturn(@, TRUE, indexedDBSchemaValid)]
  /\ UNCHANGED <<idbVars, lsVars, indexedDBSchemaValid, loadPending, calls, lastProbe>>

NeededMarkMigrated(t) ==
  /\ task[t].pc = "n_markMigrated"
  /\ \E o \in LsOutcomes :
       /\ faults' = Charged(o)
       /\ MarkMigrated(o)
       /\ task' = [task EXCEPT ![t] =
            IF o = "threw" THEN [Failed(@) EXCEPT !.pc = "n_catch"]
            ELSE NeededReturn(VersionSet(@, o), FALSE, indexedDBSchemaValid)]
  /\ UNCHANGED <<idbVars, lsAvailable, lsProfiles, lsConfigs, lsMeta,
                 indexedDBSchemaValid, loadPending, calls, lastTx, lastProbe>>

\* Variant: the catch block lets a failure of setSchemaVersion(2) escape.
NeededCaughtRethrows(f, o, flag) ==
  IF o = "threw" THEN Settled([Failed(f) EXCEPT !.catchMark = "threw"], Threw)
  ELSE NeededReturn([VersionSet(f, o) EXCEPT !.catchMark = "ok"], FALSE, flag)

\* try { await setSchemaVersion(2) } catch { /* ignored */ }; return false
NeededCaught(f, o, flag) ==
  NeededReturn([VersionSet(f, o) EXCEPT !.catchMark = IF o = "ok" THEN "ok" ELSE "threw"],
               FALSE, flag)

\* catch: try { await setSchemaVersion(2) } catch {}; return false
NeededCatch(t) ==
  /\ task[t].pc = "n_catch"
  /\ \E o \in LsOutcomes :
       /\ faults' = Charged(o)
       /\ MarkMigrated(o)
       /\ task' = [task EXCEPT ![t] = NeededCaught(@, o, indexedDBSchemaValid)]
  /\ UNCHANGED <<idbVars, lsAvailable, lsProfiles, lsConfigs, lsMeta,
                 indexedDBSchemaValid, loadPending, calls, lastTx, lastProbe>>

(***************************************************************************)
(* migrate.                                                                *)
(***************************************************************************)
\* Variant: the counter is not incremented in the loops.
CountedNever(n) == n

\* migratedItems++ after a profile or a provider config has been written.
Counted(n) == n + 1

\* Variant: the metadata entries are written but not counted.
CountedMetadataSkipped(n) == n

\* migratedItems++ after a metadata entry has been written.
CountedMetadata(n) == n + 1

\* Variant: only the first profile's configs are read.
MigrateNextProfileFirstOnly(f, flag) ==
  IF f.idx <= 1 /\ f.idx <= Len(f.profiles)
  THEN [f EXCEPT !.pc = "m_getConfigs", !.guard = flag, !.configs = <<>>, !.cidx = 0]
  ELSE [f EXCEPT !.pc = "m_getMeta", !.guard = flag, !.configs = <<>>, !.cidx = 0,
                 !.copied = TRUE]

\* After the configs of profiles[idx - 1]: the configs of the next profile,
\* or the metadata.
MigrateNextProfile(f, flag) ==
  IF f.idx <= Len(f.profiles)
  THEN [f EXCEPT !.pc = "m_getConfigs", !.guard = flag, !.configs = <<>>, !.cidx = 0]
  ELSE [f EXCEPT !.pc = "m_getMeta", !.guard = flag, !.configs = <<>>, !.cidx = 0,
                 !.copied = TRUE]

\* Variant: a metadata failure reaches the outer catch block.
MigrateMetadataFailedFatal(f) == MigrateCatch([f EXCEPT !.metaFailed = TRUE])

\* catch (error) { console.warn("Error migrating metadata:", error) }
MigrateMetadataFailed(f) == [Failed(f) EXCEPT !.pc = "m_setVersion", !.metaFailed = TRUE]

MigrateValidate(t) ==
  /\ task[t].pc = "m_validate"
  /\ \E o \in ValidatorOutcomes :
       /\ faults' = Charged(o)
       /\ LET v == HasValidIndexedDBSchema(o)
              f == Verdict(IF o \in {"success", "undefined"} THEN task[t] ELSE ProbeFailed(task[t]),
                           v)
          IN /\ FlagRefreshed(v)
             /\ lastProbe' = Probed(o)
             /\ task' = [task EXCEPT ![t] =
                  IF NoLegacyStore(v)
                  THEN MigrateReturn(f, FailureResult(0))
                  ELSE [f EXCEPT !.pc = "m_getProfiles", !.guard = v, !.validated = TRUE]]
  /\ UNCHANGED <<idbVars, lsVars, loadPending, calls, lastTx>>

\* const profiles = await ProviderDB.getAllProfiles()
\* Variant: the loop over profiles is skipped.
MigrateProfilesReadNoLoop(f, ps, flag) ==
  [f EXCEPT !.pc = "m_getAllProfiles", !.guard = flag]

\* for (const profile of profiles) { await saveProfile(profile); ... }, then
\* const allProfiles = await ProviderDB.getAllProfiles()
MigrateProfilesRead(f, ps, flag) ==
  IF Len(ps) = 0
  THEN [f EXCEPT !.pc = "m_getAllProfiles", !.guard = flag]
  ELSE [f EXCEPT !.pc = "m_saveProfile", !.profiles = ps, !.idx = 1]

MigrateGetProfiles(t) ==
  /\ task[t].pc = "m_getProfiles"
  /\ \E o \in AdapterOutcomes(task[t].guard, "profiles") :
       /\ faults' = Charged(o)
       /\ lastTx' = TxLogged(task[t], o, "profiles")
       /\ task' = [task EXCEPT ![t] =
            IF Rejected(o) THEN MigrateCatch(@)
            ELSE MigrateProfilesRead(@, GetAllProfiles(o), indexedDBSchemaValid)]
  /\ UNCHANGED <<idbVars, lsVars, indexedDBSchemaValid, loadPending, calls, lastProbe>>

\* await this.localStorageProvider.saveProfile(profile); migratedItems++
MigrateSaveProfile(t) ==
  /\ task[t].pc = "m_saveProfile"
  /\ \E o \in LsOutcomes :
       /\ faults' = Charged(o)
       /\ LET f == task[t]
          IN /\ lsProfiles' = IF o = "ok" /\ lsAvailable
                              THEN SaveProfile(lsProfiles, f.profiles[f.idx])
                              ELSE lsProfiles
             /\ task' = [task EXCEPT ![t] =
                  IF o = "threw" THEN MigrateCatch(f)
                  ELSE LET g == [f EXCEPT !.migratedItems = Counted(f.migratedItems),
                                          !.savedProfiles = @ \cup {f.profiles[f.idx].id},
                                          !.idx = f.idx + 1]
                       IN IF g.idx <= Len(g.profiles) THEN g
                          ELSE [g EXCEPT !.pc = "m_getAllProfiles",
                                         !.guard = indexedDBSchemaValid]]
  /\ UNCHANGED <<idbVars, lsAvailable, lsVersion, lsConfigs, lsMeta,
                 indexedDBSchemaValid, loadPending, calls, lastTx, lastProbe>>

\* const allProfiles = await ProviderDB.getAllProfiles()
MigrateGetAllProfiles(t) ==
  /\ task[t].pc = "m_getAllProfiles"
  /\ \E o \in AdapterOutcomes(task[t].guard, "profiles") :
       /\ faults' = Charged(o)
       /\ lastTx' = TxLogged(task[t], o, "profiles")
       /\ task' = [task EXCEPT ![t] =
            IF Rejected(o) THEN MigrateCatch(@)
            ELSE MigrateNextProfile([@ EXCEPT !.profiles = GetAllProfiles(o), !.idx = 1],
                                    indexedDBSchemaValid)]
  /\ UNCHANGED <<idbVars, lsVars, indexedDBSchemaValid, loadPending, calls, lastProbe>>

\* const configs = await ProviderDB.getProviderConfigsByProfile(profile.id)
MigrateGetConfigs(t) ==
  /\ task[t].pc = "m_getConfigs"
  /\ \E o \in AdapterOutcomes(task[t].guard, "provider_configs") :
       /\ faults' = Charged(o)
       /\ LET f == task[t]
              cs == GetProviderConfigsByProfile(o, f.profiles[f.idx].id)
          IN /\ lastTx' = TxLogged(f, o, "provider_configs")
             /\ task' = [task EXCEPT ![t] =
                  IF Rejected(o) THEN MigrateCatch(f)
                  ELSE IF Len(cs) = 0
                       THEN MigrateNextProfile([f EXCEPT !.idx = f.idx + 1],
                                               indexedDBSchemaValid)
                       ELSE [f EXCEPT !.pc = "m_saveConfig", !.configs = cs, !.cidx = 1]]
  /\ UNCHANGED <<idbVars, lsVars, indexedDBSchemaValid, loadPending, calls, lastProbe>>

\* await this.localStorageProvider.saveProviderConfig({...}); migratedItems++
MigrateSaveConfig(t) ==
  /\ task[t].pc = "m_saveConfig"
  /\ \E o \in LsOutcomes :
       /\ faults' = Charged(o)
       /\ LET f == task[t]
          IN /\ lsConfigs' = IF o = "ok" /\ lsAvailable
                             THEN SaveProviderConfig(lsConfigs, ConfigArg(f.configs[f.cidx]))
                             ELSE lsConfigs
             /\ task' = [task EXCEPT ![t] =
                  IF o = "threw" THEN MigrateCatch(f)
                  ELSE LET g == [f EXCEPT !.migratedItems = Counted(f.migratedItems),
                                          !.savedConfigs = @ \cup
                                             {[arg |-> ConfigArg(f.configs[f.cidx]),
                                               legacy |-> f.configs[f.cidx]]},
                                          !.providerConfigsMigrated = f.providerConfigsMigrated + 1,
                                          !.cidx = f.cidx + 1]
                       IN IF g.cidx <= Len(g.configs) THEN g
                          ELSE MigrateNextProfile([g EXCEPT !.idx = g.idx + 1],
                                                  indexedDBSchemaValid)]
  /\ UNCHANGED <<idbVars, lsAvailable, lsVersion, lsProfiles, lsMeta,
                 indexedDBSchemaValid, loadPending, calls, lastTx, lastProbe>>

\* const activeProfileId = await ProviderDB.getMetadata("active_profile_id");
\* a rejection here or below is caught by the inner catch, after which the
\* schema version is set.
MigrateGetMeta(t) ==
  /\ task[t].pc = "m_getMeta"
  /\ \E o \in AdapterOutcomes(task[t].guard, "app_metadata") :
       /\ faults' = Charged(o)
       /\ LET f == task[t]
              a == GetMetadataActiveProfileId(o)
          IN /\ lastTx' = TxLogged(f, o, "app_metadata")
             /\ task' = [task EXCEPT ![t] =
                  IF Rejected(o) THEN MigrateMetadataFailed(f)
                  ELSE IF a # 0 THEN [f EXCEPT !.pc = "m_setActive", !.activeProfileId = a]
                  ELSE [f EXCEPT !.pc = "m_getSchemaVersion", !.guard = indexedDBSchemaValid]]
  /\ UNCHANGED <<idbVars, lsVars, indexedDBSchemaValid, loadPending, calls, lastProbe>>

\* await setMetadata("active_profile_id", activeProfileId); migratedItems++
MigrateSetActive(t) ==
  /\ task[t].pc = "m_setActive"
  /\ \E o \in LsOutcomes :
       /\ faults' = Charged(o)
       /\ LET f == task[t]
          IN /\ lsMeta' = IF o = "ok" /\ lsAvailable
                          THEN [lsMeta EXCEPT !.active_profile_id = f.activeProfileId]
                          ELSE lsMeta
             /\ task' = [task EXCEPT ![t] =
                  IF o = "threw" THEN MigrateMetadataFailed(f)
                  ELSE [f EXCEPT !.migratedItems = CountedMetadata(f.migratedItems),
                                 !.pc = "m_getSchemaVersion", !.guard = indexedDBSchemaValid]]
  /\ UNCHANGED <<idbVars, lsAvailable, lsVersion, lsProfiles, lsConfigs,
                 indexedDBSchemaValid, loadPending, calls, lastTx, lastProbe>>

\* const schemaVersion = await ProviderDB.getSchemaVersion()
MigrateGetSchemaVersion(t) ==
  /\ task[t].pc = "m_getSchemaVersion"
  /\ \E o \in AdapterOutcomes(task[t].guard, "app_metadata") :
       /\ faults' = Charged(o)
       /\ LET f == task[t]
          IN /\ lastTx' = TxLogged(f, o, "app_metadata")
             /\ task' = [task EXCEPT ![t] =
                  IF Rejected(o) THEN MigrateMetadataFailed(f)
                  ELSE [f EXCEPT !.pc = "m_setMetaVersion",
                                 !.legacyVersion = GetSchemaVersion(o)]]
  /\ UNCHANGED <<idbVars, lsVars, indexedDBSchemaValid, loadPending, calls, lastProbe>>

\* await setMetadata("schema_version", schemaVersion); migratedItems++
MigrateSetMetaVersion(t) ==
  /\ task[t].pc = "m_setMetaVersion"
  /\ \E o \in LsOutcomes :
       /\ faults' = Charged(o)
       /\ LET f == task[t]
          IN /\ lsMeta' = IF o = "ok" /\ lsAvailable
                          THEN [lsMeta EXCEPT !.schema_version = f.legacyVersion]
                          ELSE lsMeta
             /\ task' = [task EXCEPT ![t] =
                  IF o = "threw" THEN MigrateMetadataFailed(f)
                  ELSE [f EXCEPT !.migratedItems = CountedMetadata(f.migratedItems),
                                 !.pc = "m_setVersion"]]
  /\ UNCHANGED <<idbVars, lsAvailable, lsVersion, lsProfiles, lsConfigs,
                 indexedDBSchemaValid, loadPending, calls, lastTx, lastProbe>>

\* await this.localStorageProvider.setSchemaVersion(2); return { success: true, ... }
MigrateSetVersion(t) ==
  /\ task[t].pc = "m_setVersion"
  /\ \E o \in LsOutcomes :
       /\ faults' = Charged(o)
       /\ LET f == task[t]
          IN /\ MarkMigrated(o)
             /\ task' = [task EXCEPT ![t] =
                  IF o = "threw" THEN MigrateCatch(VersionSet(f, o))
                  ELSE MigrateReturn(VersionSet(f, o), SuccessResult(f.migratedItems))]
  /\ UNCHANGED <<idbVars, lsAvailable, lsProfiles, lsConfigs, lsMeta,
                 indexedDBSchemaValid, loadPending, calls, lastTx, lastProbe>>

(***************************************************************************)
(* clearIndexedDB.                                                         *)
(***************************************************************************)
\* Variant: the second loop deletes every profile.
ShouldDeleteAnyProfile(p) == TRUE

\* if (!profile.isDefault)
ShouldDeleteProfile(p) == ~p.isDefault

\* The second loop from profiles[i] on: the next profile to delete, if any.
RECURSIVE ClearNextDelete(_, _, _)
ClearNextDelete(f, i, flag) ==
  IF i > Len(f.profiles) THEN ClearReturn(f, FALSE)
  ELSE IF ShouldDeleteProfile(f.profiles[i])
       THEN [f EXCEPT !.pc = "c_deleteProfile", !.idx = i, !.guard = flag,
                      !.deleteProfileCalls = @ \cup {f.profiles[i]}]
       ELSE ClearNextDelete(f, i + 1, flag)

\* Variant: the loop that deletes the provider configs is skipped.
ClearNextProfileNoConfigs(f, flag) ==
  ClearNextDelete([f EXCEPT !.configs = <<>>, !.cidx = 0], 1, flag)

\* The first loop at profiles[idx]: its configs, or on to the second loop.
ClearNextProfile(f, flag) ==
  IF f.idx <= Len(f.profiles)
  THEN [f EXCEPT !.pc = "c_getConfigs", !.guard = flag, !.configs = <<>>, !.cidx = 0]
  ELSE ClearNextDelete([f EXCEPT !.configs = <<>>, !.cidx = 0], 1, flag)

\* Variant: the rejection is swallowed and the second loop runs.
ClearAbortedSwallowed(f, step, flag) ==
  ClearNextDelete([Failed(f) EXCEPT !.clearAborted = step, !.configs = <<>>, !.cidx = 0],
                  1, flag)

\* catch (error) { console.error("Error clearing IndexedDB:", error); throw error }
ClearAborted(f, step, flag) == ClearReturn([Failed(f) EXCEPT !.clearAborted = step], TRUE)

\* Variant: the skipped cleanup throws.
ClearSkippedThrows(f) == ClearReturn(f, TRUE)

\* console.warn("... skipping cleanup"); return
ClearSkipped(f) == ClearReturn(f, FALSE)

ClearValidate(t) ==
  /\ task[t].pc = "c_validate"
  /\ \E o \in ValidatorOutcomes :
       /\ faults' = Charged(o)
       /\ LET v == HasValidIndexedDBSchema(o)
              f == Verdict(IF o \in {"success", "undefined"} THEN task[t] ELSE ProbeFailed(task[t]),
                           v)
          IN /\ FlagRefreshed(v)
             /\ lastProbe' = Probed(o)
             /\ task' = [task EXCEPT ![t] =
                  IF NoLegacyStore(v)
                  THEN ClearSkipped(f)
                  ELSE [f EXCEPT !.pc = "c_getProfiles", !.guard = v, !.validated = TRUE]]
  /\ UNCHANGED <<idbVars, lsVars, loadPending, calls, lastTx>>

\* Variant: a rejected deleteProfile ends the cleanup with an error.
ClearProfileDeletedFatal(f, o, flag) ==
  IF Rejected(o)
  THEN ClearReturn([Failed(f) EXCEPT !.deleteFailed = @ \cup {f.profiles[f.idx]}], TRUE)
  ELSE ClearNextDelete(f, f.idx + 1, flag)

\* try { await ProviderDB.deleteProfile(profile.id) } catch { console.warn(...) }
\* and on to the next profile.
ClearProfileDeleted(f, o, flag) ==
  ClearNextDelete(IF Rejected(o)
                  THEN [Failed(f) EXCEPT !.deleteFailed = @ \cup {f.profiles[f.idx]}]
                  ELSE f,
                  f.idx + 1, flag)

ClearGetProfiles(t) ==
  /\ task[t].pc = "c_getProfiles"
  /\ \E o \in AdapterOutcomes(task[t].guard, "profiles") :
       /\ faults' = Charged(o)
       /\ lastTx' = TxLogged(task[t], o, "profiles")
       /\ task' = [task EXCEPT ![t] =
            IF Rejected(o) THEN ClearAborted(@, "getAllProfiles", indexedDBSchemaValid)
            ELSE ClearNextProfile([@ EXCEPT !.profiles = GetAllProfiles(o), !.idx = 1,
                                            !.clearProfiles = GetAllProfiles(o)],
                                  indexedDBSchemaValid)]
  /\ UNCHANGED <<idbVars, lsVars, indexedDBSchemaValid, loadPending, calls, lastProbe>>

ClearGetConfigs(t) ==
  /\ task[t].pc = "c_getConfigs"
  /\ \E o \in AdapterOutcomes(task[t].guard, "provider_configs") :
       /\ faults' = Charged(o)
       /\ LET f == task[t]
              cs == GetProviderConfigsByProfile(o, f.profiles[f.idx].id)
          IN /\ lastTx' = TxLogged(f, o, "provider_configs")
             /\ task' = [task EXCEPT ![t] =
                  IF Rejected(o)
                  THEN ClearAborted(f, "getProviderConfigsByProfile", indexedDBSchemaValid)
                  ELSE IF Len(cs) = 0
                       THEN ClearNextProfile([f EXCEPT !.idx = f.idx + 1], indexedDBSchemaValid)
                       ELSE [f EXCEPT !.pc = "c_deleteConfig", !.configs = cs, !.cidx = 1,
                                      !.guard = indexedDBSchemaValid,
                                      !.deleteConfigCalls = @ \cup {cs[1]}]]
  /\ UNCHANGED <<idbVars, lsVars, indexedDBSchemaValid, loadPending, calls, lastProbe>>

\* await ProviderDB.deleteProviderConfig(config.id)
ClearDeleteConfig(t) ==
  /\ task[t].pc = "c_deleteConfig"
  /\ \E o \in AdapterOutcomes(task[t].guard, "provider_configs") :
       /\ faults' = Charged(o)
       /\ LET f == task[t]
          IN /\ lastTx' = TxLogged(f, o, "provider_configs")
             /\ idbConfigs' = IF o = "ok"
                              THEN {c \in idbConfigs : c.id # f.configs[f.cidx].id}
                              ELSE idbConfigs
             /\ task' = [task EXCEPT ![t] =
                  IF Rejected(o)
                  THEN ClearAborted(f, "deleteProviderConfig", indexedDBSchemaValid)
                  ELSE IF f.cidx < Len(f.configs)
                       THEN [f EXCEPT !.cidx = f.cidx + 1, !.guard = indexedDBSchemaValid,
                                      !.deleteConfigCalls = @ \cup {f.configs[f.cidx + 1]}]
                       ELSE ClearNextProfile([f EXCEPT !.idx = f.idx + 1],
                                             indexedDBSchemaValid)]
  /\ UNCHANGED <<indexedDBDefined, objectStoreNames, idbProfiles, idbMeta, lsVars,
                 indexedDBSchemaValid, loadPending, calls, lastProbe>>

\* try { await ProviderDB.deleteProfile(profile.id) } catch { console.warn(...) }
ClearDeleteProfile(t) ==
  /\ task[t].pc = "c_deleteProfile"
  /\ \E o \in AdapterOutcomes(task[t].guard, "profiles") :
       /\ faults' = Charged(o)
       /\ LET f == task[t]
          IN /\ lastTx' = TxLogged(f, o, "profiles")
             /\ idbProfiles' = IF o = "ok"
                               THEN {p \in idbProfiles : p.id # f.profiles[f.idx].id}
                               ELSE idbProfiles
             /\ task' = [task EXCEPT ![t] = ClearProfileDeleted(f, o, indexedDBSchemaValid)]
  /\ UNCHANGED <<indexedDBDefined, objectStoreNames, idbConfigs, idbMeta, lsVars,
                 indexedDBSchemaValid, loadPending, calls, lastProbe>>

(***************************************************************************)
(* getMigrationStatus.                                                     *)
(***************************************************************************)
\* const needsMigration = await this.isMigrationNeeded(), after the validation.
StatusValidate(t) ==
  /\ task[t].pc = "g_validate"
  /\ \E o \in ValidatorOutcomes :
       /\ faults' = Charged(o)
       /\ LET v == HasValidIndexedDBSchema(o)
              f == Verdict(IF o \in {"success", "undefined"} THEN task[t] ELSE ProbeFailed(task[t]),
                           v)
          IN /\ FlagRefreshed(v)
             /\ lastProbe' = Probed(o)
             /\ task' = [task EXCEPT ![t] =
                  [f EXCEPT !.schemaValid = v,
                            !.indexedDBAvailable = IF indexedDBDefined /\ v THEN v ELSE FALSE,
                            !.validated = f.validated \/ v,
                            !.pc = "n_getVersion"]]
  /\ UNCHANGED <<idbVars, lsVars, loadPending, calls, lastTx>>

\* catch: console.warn("Error counting localStorage items:", error)
StatusLsFailed(f) == [Failed(f) EXCEPT !.lsCountFailed = TRUE, !.profiles = <<>>, !.idx = 0]

\* After the configs of profiles[idx - 1] in the localStorage count.
StatusNextLsProfile(f, flag) ==
  IF f.idx <= Len(f.profiles) THEN [f EXCEPT !.pc = "g_lsConfigs"]
  ELSE GmsStartIdbCount([f EXCEPT !.profiles = <<>>, !.idx = 0], flag)

StatusLsProfiles(t) ==
  /\ task[t].pc = "g_lsProfiles"
  /\ \E o \in LsOutcomes :
       /\ faults' = Charged(o)
       /\ task' = [task EXCEPT ![t] =
            IF o = "threw" THEN GmsStartIdbCount(StatusLsFailed(@), indexedDBSchemaValid)
            ELSE StatusNextLsProfile(
                   [@ EXCEPT !.profiles = LsGetAllProfiles, !.idx = 1,
                             !.localStorageItems = @ + Len(LsGetAllProfiles)],
                   indexedDBSchemaValid)]
  /\ UNCHANGED <<idbVars, lsVars, indexedDBSchemaValid, loadPending, calls, lastTx, lastProbe>>

StatusLsConfigs(t) ==
  /\ task[t].pc = "g_lsConfigs"
  /\ \E o \in LsOutcomes :
       /\ faults' = Charged(o)
       /\ LET f == task[t]
              cs == LsGetProviderConfigsByProfile(f.profiles[f.idx].id)
          IN task' = [task EXCEPT ![t] =
               IF o = "threw"
               THEN GmsStartIdbCount(StatusLsFailed(f), indexedDBSchemaValid)
               ELSE StatusNextLsProfile(
                      [f EXCEPT !.localStorageItems = @ + Len(cs), !.idx = f.idx + 1],
                      indexedDBSchemaValid)]
  /\ UNCHANGED <<idbVars, lsVars, indexedDBSchemaValid, loadPending, calls, lastTx, lastProbe>>

\* Variant: the count accumulated so far is kept.
StatusIdbFailedKeepsCount(f) == GmsReturn([Failed(f) EXCEPT !.idbCountFailed = TRUE])

\* catch: indexedDBItems = 0
StatusIdbFailed(f) ==
  GmsReturn([Failed(f) EXCEPT !.indexedDBItems = 0, !.idbCountFailed = TRUE])

StatusNextIdbProfile(f, flag) ==
  IF f.idx <= Len(f.profiles) THEN [f EXCEPT !.pc = "g_idbConfigs", !.guard = flag]
  ELSE GmsReturn(f)

StatusIdbProfiles(t) ==
  /\ task[t].pc = "g_idbProfiles"
  /\ \E o \in AdapterOutcomes(task[t].guard, "profiles") :
       /\ faults' = Charged(o)
       /\ lastTx' = TxLogged(task[t], o, "profiles")
       /\ task' = [task EXCEPT ![t] =
            IF Rejected(o) THEN StatusIdbFailed(@)
            ELSE StatusNextIdbProfile(
                   [@ EXCEPT !.profiles = GetAllProfiles(o), !.idx = 1,
                             !.indexedDBItems = @ + Len(GetAllProfiles(o))],
                   indexedDBSchemaValid)]
  /\ UNCHANGED <<idbVars, lsVars, indexedDBSchemaValid, loadPending, calls, lastProbe>>

StatusIdbConfigs(t) ==
  /\ task[t].pc = "g_idbConfigs"
  /\ \E o \in AdapterOutcomes(task[t].guard, "provider_configs") :
       /\ faults' = Charged(o)
       /\ LET f == task[t]
              cs == GetProviderConfigsByProfile(o, f.profiles[f.idx].id)
          IN /\ lastTx' = TxLogged(f, o, "provider_configs")
             /\ task' = [task EXCEPT ![t] =
                  IF Rejected(o) THEN StatusIdbFailed(f)
                  ELSE StatusNextIdbProfile(
                         [f EXCEPT !.indexedDBItems = @ + Len(cs), !.idx = f.idx + 1],
                         indexedDBSchemaValid)]
  /\ UNCHANGED <<idbVars, lsVars, indexedDBSchemaValid, loadPending, calls, lastProbe>>

(***************************************************************************)
(* exportIndexedDBData.                                                    *)
(***************************************************************************)
\* providerConfigs[`${profile.id}:${config.providerId}`] = config, for each
\* config of cs in order.
\* `${profile.id}:${config.providerId}`
ProviderKey(pid, providerId) == <<pid, ":", providerId>>

\* Variant: an entry that exists is kept.
RECURSIVE PutProvidersFirstWins(_, _, _)
PutProvidersFirstWins(m, pid, cs) ==
  IF cs = <<>> THEN m
  ELSE PutProvidersFirstWins(
         IF \E e \in m : e.key = ProviderKey(pid, Head(cs).providerId) THEN m
         ELSE m \cup {[key |-> ProviderKey(pid, Head(cs).providerId), config |-> Head(cs)]},
         pid, Tail(cs))

RECURSIVE PutProviders(_, _, _)
PutProviders(m, pid, cs) ==
  IF cs = <<>> THEN m
  ELSE PutProviders({e \in m : e.key # ProviderKey(pid, Head(cs).providerId)}
                      \cup {[key |-> ProviderKey(pid, Head(cs).providerId),
                              config |-> Head(cs)]},
                    pid, Tail(cs))

\* return JSON.stringify({ profiles, providers, metadata, exportedAt })
ExportReturn(f, active, version, read) ==
  Settled(f, [Returned EXCEPT !.doc = [profiles |-> f.profiles, providers |-> f.providers,
                                        active_profile_id |-> active,
                                        schema_version |-> version,
                                        metadataRead |-> read]])

ExportNextProfile(f, flag) ==
  IF f.idx <= Len(f.profiles) THEN [f EXCEPT !.pc = "e_getConfigs", !.guard = flag]
  ELSE [f EXCEPT !.pc = "e_getMeta", !.guard = flag]

\* Variant: an empty document is returned.
ExportUnavailableEmpty(f) == ExportReturn(f, 0, 0, FALSE)

\* throw new Error("IndexedDB is not available or has invalid schema")
ExportUnavailable(f) == Settled(f, Threw)

\* Variant: the document built so far is returned.
ExportReadFailedPartial(f) ==
  ExportReturn([Failed(f) EXCEPT !.readFailed = TRUE], 0, 0, FALSE)

\* catch (error) { throw new Error(`Failed to export IndexedDB data: ${error}`) }
ExportReadFailed(f) == Settled([Failed(f) EXCEPT !.readFailed = TRUE], Threw)

\* catch (error) { console.warn("Error exporting metadata:", error) }, after
\* which the document is returned with the metadata read so far.
ExportMetadataFailed(f, active) ==
  ExportReturn([Failed(f) EXCEPT !.metaFailed = TRUE], active, 0, FALSE)

ExportValidate(t) ==
  /\ task[t].pc = "e_validate"
  /\ \E o \in ValidatorOutcomes :
       /\ faults' = Charged(o)
       /\ LET v == HasValidIndexedDBSchema(o)
              f == Verdict(IF o \in {"success", "undefined"} THEN task[t] ELSE ProbeFailed(task[t]),
                           v)
          IN /\ FlagRefreshed(v)
             /\ lastProbe' = Probed(o)
             /\ task' = [task EXCEPT ![t] =
                  IF NoLegacyStore(v)
                  THEN ExportUnavailable(f)
                  ELSE [f EXCEPT !.pc = "e_getProfiles", !.guard = v, !.validated = TRUE]]
  /\ UNCHANGED <<idbVars, lsVars, loadPending, calls, lastTx>>

ExportGetProfiles(t) ==
  /\ task[t].pc = "e_getProfiles"
  /\ \E o \in AdapterOutcomes(task[t].guard, "profiles") :
       /\ faults' = Charged(o)
       /\ lastTx' = TxLogged(task[t], o, "profiles")
       /\ task' = [task EXCEPT ![t] =
            IF Rejected(o) THEN ExportReadFailed(@)
            ELSE ExportNextProfile([@ EXCEPT !.profiles = GetAllProfiles(o), !.idx = 1],
                                   indexedDBSchemaValid)]
  /\ UNCHANGED <<idbVars, lsVars, indexedDBSchemaValid, loadPending, calls, lastProbe>>

ExportGetConfigs(t) ==
  /\ task[t].pc = "e_getConfigs"
  /\ \E o \in AdapterOutcomes(task[t].guard, "provider_configs") :
       /\ faults' = Charged(o)
       /\ LET f == task[t]
              pid == f.profiles[f.idx].id
          IN /\ lastTx' = TxLogged(f, o, "provider_configs")
             /\ task' = [task EXCEPT ![t] =
                  IF Rejected(o) THEN ExportReadFailed(f)
                  ELSE ExportNextProfile(
                         [f EXCEPT !.providers =
                                     PutProviders(@, pid, GetProviderConfigsByProfile(o, pid)),
                                   !.idx = f.idx + 1],
                         indexedDBSchemaValid)]
  /\ UNCHANGED <<idbVars, lsVars, indexedDBSchemaValid, loadPending, calls, lastProbe>>

\* metadata.active_profile_id = await ProviderDB.getMetadata("active_profile_id")
ExportGetMeta(t) ==
  /\ task[t].pc = "e_getMeta"
  /\ \E o \in AdapterOutcomes(task[t].guard, "app_metadata") :
       /\ faults' = Charged(o)
       /\ LET f == task[t]
          IN /\ lastTx' = TxLogged(f, o, "app_metadata")
             /\ task' = [task EXCEPT ![t] =
                  IF Rejected(o) THEN ExportMetadataFailed(f, 0)
                  ELSE [f EXCEPT !.pc = "e_getSchemaVersion",
                                 !.activeProfileId = GetMetadataActiveProfileId(o),
                                 !.guard = indexedDBSchemaValid]]
  /\ UNCHANGED <<idbVars, lsVars, indexedDBSchemaValid, loadPending, calls, lastProbe>>

\* metadata.schema_version = await ProviderDB.getSchemaVersion()
ExportGetSchemaVersion(t) ==
  /\ task[t].pc = "e_getSchemaVersion"
  /\ \E o \in AdapterOutcomes(task[t].guard, "app_metadata") :
       /\ faults' = Charged(o)
       /\ LET f == task[t]
          IN /\ lastTx' = TxLogged(f, o, "app_metadata")
             /\ task' = [task EXCEPT ![t] =
                  IF Rejected(o) THEN ExportMetadataFailed(f, f.activeProfileId)
                  ELSE ExportReturn(f, f.activeProfileId, GetSchemaVersion(o), TRUE)]
  /\ UNCHANGED <<idbVars, lsVars, indexedDBSchemaValid, loadPending, calls, lastProbe>>

(***************************************************************************)
(* ProviderDB.getDefaultProfile.                                           *)
(***************************************************************************)
GetDefaultProfile(t) ==
  /\ task[t].pc = "d_get"
  /\ \E o \in AdapterOutcomes(task[t].guard, "profiles") :
       /\ faults' = Charged(o)
       /\ lastTx' = TxLogged(task[t], o, "profiles")
       /\ task' = [task EXCEPT ![t] =
            IF Rejected(o) THEN Settled(Failed(@), Threw)
            ELSE IF \E p \in idbProfiles : p.isDefault
                 THEN Settled(@, [Returned EXCEPT !.value = TRUE])
                 ELSE Settled(@, Threw)]
  /\ UNCHANGED <<idbVars, lsVars, indexedDBSchemaValid, loadPending, calls, lastProbe>>

(***************************************************************************)
(* The specification: operations are invoked one after another by task 1.  *)
(***************************************************************************)
Step(t) ==
  \/ NeededGetVersion(t) \/ NeededValidate(t) \/ NeededGetProfiles(t)
  \/ NeededMarkMigrated(t) \/ NeededCatch(t)
  \/ MigrateValidate(t) \/ MigrateGetProfiles(t) \/ MigrateSaveProfile(t)
  \/ MigrateGetAllProfiles(t) \/ MigrateGetConfigs(t) \/ MigrateSaveConfig(t)
  \/ MigrateGetMeta(t) \/ MigrateSetActive(t) \/ MigrateGetSchemaVersion(t)
  \/ MigrateSetMetaVersion(t) \/ MigrateSetVersion(t)
  \/ ClearValidate(t) \/ ClearGetProfiles(t) \/ ClearGetConfigs(t)
  \/ ClearDeleteConfig(t) \/ ClearDeleteProfile(t)
  \/ StatusValidate(t) \/ StatusLsProfiles(t) \/ StatusLsConfigs(t)
  \/ StatusIdbProfiles(t) \/ StatusIdbConfigs(t)
  \/ ExportValidate(t) \/ ExportGetProfiles(t) \/ ExportGetConfigs(t)
  \/ ExportGetMeta(t) \/ ExportGetSchemaVersion(t)
  \/ GetDefaultProfile(t)

Next ==
  \/ \E t \in SeqTasks : Call(t)
  \/ \E t \in Tasks : Step(t)
  \/ ModuleLoadValidation

Spec == Init /\ [][Next]_vars

(***************************************************************************)
(* Two callers run migrate() at the same time on a valid legacy store and  *)
(* an available, empty localStorage store; no request fails.  Nothing in   *)
(* migrate() keeps a second call from starting while a first is suspended  *)
(* at an await.                                                            *)
(***************************************************************************)
InitConc ==
  /\ indexedDBDefined = TRUE
  /\ objectStoreNames = RequiredStores
  /\ \E x \in Fixtures : /\ idbProfiles = x.profiles
                         /\ idbConfigs = x.configs
                         /\ idbMeta = x.meta
  /\ indexedDBSchemaValid = FALSE
  /\ loadPending = TRUE
  /\ lsAvailable = TRUE
  /\ lsVersion = 0
  /\ lsProfiles = <<>>
  /\ lsConfigs = <<>>
  /\ lsMeta = [active_profile_id |-> 0, schema_version |-> -1]
  /\ task = [t \in Tasks |-> InitFrame]
  /\ calls = 0
  /\ lastTx = NoTx
  /\ lastProbe = NoProbe
  /\ faults = MaxFaults

\* migrate() is called while the other caller may be inside migrate().
CallMigrate(t) ==
  /\ calls < MaxCalls
  /\ task[t].pc \in {"idle", "done"}
  /\ task' = [task EXCEPT ![t] = FirstAwait(Enter(t, "migrate"))]
  /\ calls' = calls + 1
  /\ UNCHANGED <<idbVars, lsVars, indexedDBSchemaValid, loadPending, lastTx, lastProbe,
                 faults>>

NextConc ==
  \/ \E t \in Tasks : CallMigrate(t)
  \/ \E t \in Tasks : MigrateValidate(t)
  \/ \E t \in Tasks : MigrateGetProfiles(t)
  \/ \E t \in Tasks : MigrateSaveProfile(t)
  \/ \E t \in Tasks : MigrateGetAllProfiles(t)
  \/ \E t \in Tasks : MigrateGetConfigs(t)
  \/ \E t \in Tasks : MigrateSaveConfig(t)
  \/ \E t \in Tasks : MigrateGetMeta(t)
  \/ \E t \in Tasks : MigrateSetActive(t)
  \/ \E t \in Tasks : MigrateGetSchemaVersion(t)
  \/ \E t \in Tasks : MigrateSetMetaVersion(t)
  \/ \E t \in Tasks : MigrateSetVersion(t)
  \/ ModuleLoadValidation

SpecConc == InitConc /\ [][NextConc]_vars

(***************************************************************************)
(* The schema validator and the ProviderDB methods, called one at a time   *)
(* and followed event by event: the open request, the request on the       *)
(* object store, the completion of a readwrite transaction.  The frame     *)
(* holds the connection the call obtained (db) and whether it called       *)
(* indexedDB.open at all (requested).  A caller of the validator assigns   *)
(* its verdict to the shared flag, as the module does at load.             *)
(***************************************************************************)
AdapterMethods ==
  {"getAllProfiles", "getProviderConfigsByProfile", "getMetadata", "getSchemaVersion",
   "deleteProviderConfig", "deleteProfile", "getProfile", "getDefaultProfile"}

\* The arguments the methods are called with.
ArgsOf(m) ==
  CASE m \in {"getProviderConfigsByProfile", "deleteProfile", "getProfile"} -> {1, 2}
    [] m = "deleteProviderConfig" -> {1, 4}
    [] m = "getMetadata" -> {"active_profile_id", "schema_version"}
    [] OTHER -> {0}

\* The object store each method starts its transaction on.
StoreOf(m) ==
  CASE m \in {"getAllProfiles", "deleteProfile", "getProfile", "getDefaultProfile"} ->
         "profiles"
    [] m \in {"getProviderConfigsByProfile", "deleteProviderConfig"} -> "provider_configs"
    [] OTHER -> "app_metadata"

AdapterFrame ==
  [op |-> "none", arg |-> 0, pc |-> "idle", flagAtCall |-> FALSE, requested |-> FALSE,
   db |-> "none", result |-> [outcome |-> "none", value |-> 0]]

Resolved(f, v) ==
  [f EXCEPT !.pc = "done", !.result = [outcome |-> "resolved", value |-> v]]

RejectedWith(f, e) ==
  [f EXCEPT !.pc = "done", !.result = [outcome |-> "rejected", value |-> e]]

\* Variant: the guard never short-circuits.
SchemaInvalidNever == FALSE

\* if (!indexedDBSchemaValid)
SchemaInvalid == ~indexedDBSchemaValid

\* What a method returns without opening the database.
ShortCircuit(f) ==
  CASE f.op \in {"getAllProfiles", "getProviderConfigsByProfile"} -> Resolved(f, <<>>)
    [] f.op \in {"getMetadata", "getProfile"} -> Resolved(f, "null")
    [] f.op = "getSchemaVersion" -> Resolved(f, 0)
    [] f.op \in {"deleteProviderConfig", "deleteProfile"} -> Resolved(f, "undefined")
    [] f.op = "getDefaultProfile" -> RejectedWith(f, "IndexedDB schema is invalid")

InitAdapter ==
  /\ indexedDBDefined \in BOOLEAN
  /\ objectStoreNames \in SUBSET RequiredStores
  /\ ~indexedDBDefined => objectStoreNames = {}
  /\ IF objectStoreNames = RequiredStores
     THEN \E x \in Fixtures : /\ idbProfiles = x.profiles
                                /\ idbConfigs = x.configs
                                /\ idbMeta = x.meta
     ELSE /\ idbProfiles = IF "profiles" \in objectStoreNames THEN FullProfiles ELSE {}
          /\ idbConfigs = IF "provider_configs" \in objectStoreNames THEN FullConfigs ELSE {}
          /\ idbMeta = IF "app_metadata" \in objectStoreNames THEN FullMeta ELSE NoMeta
  /\ indexedDBSchemaValid = FALSE
  /\ loadPending = FALSE
  /\ lsAvailable = TRUE
  /\ lsVersion = 0
  /\ lsProfiles = <<>>
  /\ lsConfigs = <<>>
  /\ lsMeta = [active_profile_id |-> 0, schema_version |-> -1]
  /\ task = [t \in Tasks |-> AdapterFrame]
  /\ calls = 0
  /\ lastTx = NoTx
  /\ lastProbe = NoProbe
  /\ faults = 0

AdapterUnchanged == UNCHANGED <<lsVars, loadPending, lastTx, lastProbe>>

\* hasValidIndexedDBSchema() is called.  Without indexedDB it returns false;
\* when indexedDB.open throws, the outer catch returns false; otherwise the
\* open request is pending.
ValidatorCall(t) ==
  /\ calls < MaxCalls
  /\ task[t].pc \in {"idle", "done"}
  /\ calls' = calls + 1
  /\ LET f == [AdapterFrame EXCEPT !.op = "hasValidIndexedDBSchema",
                                   !.flagAtCall = indexedDBSchemaValid]
     IN IF ~indexedDBDefined
        THEN /\ task' = [task EXCEPT ![t] = Resolved(f, FALSE)]
             /\ FlagRefreshed(FALSE)
             /\ UNCHANGED faults
        ELSE \E o \in IF MayFail THEN {"pending", "throws"} ELSE {"pending"} :
               /\ faults' = Charged(o)
               /\ IF o = "throws"
                  THEN /\ task' = [task EXCEPT ![t] = Resolved(f, FALSE)]
                       /\ FlagRefreshed(FALSE)
                  ELSE /\ task' = [task EXCEPT ![t] =
                            [f EXCEPT !.pc = "v_open", !.requested = TRUE]]
                       /\ UNCHANGED indexedDBSchemaValid
  /\ UNCHANGED idbVars
  /\ AdapterUnchanged

\* The validator's open request fires success, error or blocked.  In the
\* success handler the store names are enumerated and db.close() is called
\* before resolve(hasAllStores); when the enumeration throws, the inner catch
\* resolves false.
ValidatorOpenSettled(t) ==
  /\ task[t].pc = "v_open"
  /\ \E o \in IF MayFail THEN {"success", "enumThrows", "error", "blocked"}
              ELSE {"success"} :
       /\ faults' = Charged(IF o = "enumThrows" THEN "throws" ELSE o)
       /\ LET f == task[t]
              v == IF o = "success" THEN HasAllStores(objectStoreNames) ELSE FALSE
          IN /\ FlagRefreshed(v)
             /\ task' = [task EXCEPT ![t] =
                  CASE o = "success" -> Resolved([f EXCEPT !.db = "closed"], v)
                    [] o = "enumThrows" -> Resolved([f EXCEPT !.db = "open"], FALSE)
                    [] o = "error" -> Resolved(f, FALSE)
                    [] o = "blocked" -> [Resolved(f, FALSE) EXCEPT !.pc = "v_blocked"]]
  /\ UNCHANGED <<idbVars, calls>>
  /\ AdapterUnchanged

\* A blocked open request is still pending after the promise has resolved;
\* when it succeeds later the handler opens and closes the connection.
ValidatorLateSuccess(t) ==
  /\ task[t].pc = "v_blocked"
  /\ task' = [task EXCEPT ![t].pc = "done", ![t].db = "closed"]
  /\ UNCHANGED <<idbVars, indexedDBSchemaValid, calls, faults>>
  /\ AdapterUnchanged

\* A ProviderDB method is called: it returns its default while the flag is
\* false, and calls indexedDB.open otherwise.
AdapterCall(t) ==
  /\ calls < MaxCalls
  /\ indexedDBDefined
  /\ task[t].pc \in {"idle", "done"}
  /\ calls' = calls + 1
  /\ \E m \in AdapterMethods : \E a \in ArgsOf(m) :
       LET f == [AdapterFrame EXCEPT !.op = m, !.arg = a,
                                     !.flagAtCall = indexedDBSchemaValid]
       IN task' = [task EXCEPT ![t] =
            IF SchemaInvalid THEN ShortCircuit(f)
            ELSE [f EXCEPT !.pc = "a_open", !.requested = TRUE]]
  /\ UNCHANGED <<idbVars, indexedDBSchemaValid, faults>>
  /\ AdapterUnchanged

\* How the success handler of the open request gets on: it issues its
\* request on the object store, or an exception reaches its catch block.
\* db.transaction throws when the object store is missing.
\* IDBKeyRange.only(true) in getDefaultProfile throws a DataError where the
\* platform follows the IndexedDB rule that a boolean is not a valid key.
HandlerOutcomes(m) ==
  IF StoreOf(m) \notin objectStoreNames THEN {"txThrows"}
  ELSE IF m = "getDefaultProfile" THEN {"issued", "keyThrows"}
  ELSE {"issued"}

\* request.onerror rejects.  request.onsuccess takes the connection and
\* starts the transaction; when an exception is thrown, the catch rejects.
AdapterOpenSettled(t) ==
  /\ task[t].pc = "a_open"
  /\ \E o \in IF MayFail THEN {"success", "error"} ELSE {"success"} :
       /\ faults' = Charged(o)
       /\ LET f == task[t]
          IN \E h \in HandlerOutcomes(f.op) :
               task' = [task EXCEPT ![t] =
                 IF o = "error" THEN RejectedWith(f, "request.error")
                 ELSE IF h = "issued" THEN [f EXCEPT !.db = "open", !.pc = "a_request"]
                 ELSE RejectedWith([f EXCEPT !.db = "open"], h)]
  /\ UNCHANGED <<idbVars, indexedDBSchemaValid, calls>>
  /\ AdapterUnchanged

\* What the request of a reading method yields.
ReadValue(f) ==
  CASE f.op = "getAllProfiles" -> GetAllProfiles("ok")
    [] f.op = "getProviderConfigsByProfile" -> GetProviderConfigsByProfile("ok", f.arg)
    [] f.op = "getMetadata" -> IF idbMeta[f.arg] # 0 THEN idbMeta[f.arg] ELSE "null"
    [] f.op = "getSchemaVersion" -> GetSchemaVersion("ok")
    [] f.op = "getProfile" ->
         IF \E p \in idbProfiles : p.id = f.arg
         THEN CHOOSE p \in idbProfiles : p.id = f.arg
         ELSE "null"

\* getDefaultProfile's onsuccess: db.close(), then resolve(result) or
\* reject(new Error("No default profile found")).
DefaultProfileFound(f) ==
  IF \E p \in idbProfiles : p.isDefault
  THEN Resolved([f EXCEPT !.db = "closed"],
                SortById({p \in idbProfiles : p.isDefault})[1])
  ELSE RejectedWith([f EXCEPT !.db = "closed"], "No default profile found")

\* The request on the object store fires error, which rejects, or success:
\* a reading method calls db.close() and resolves; a deleting method has
\* removed the record and waits for transaction.oncomplete.
AdapterRequestSettled(t) ==
  /\ task[t].pc = "a_request"
  /\ \E o \in IF MayFail THEN {"success", "error"} ELSE {"success"} :
       /\ faults' = Charged(o)
       /\ LET f == task[t]
          IN /\ task' = [task EXCEPT ![t] =
                  IF o = "error" THEN RejectedWith(f, "request.error")
                  ELSE IF f.op \in {"deleteProviderConfig", "deleteProfile"}
                       THEN [f EXCEPT !.pc = "a_complete"]
                  ELSE IF f.op = "getDefaultProfile" THEN DefaultProfileFound(f)
                  ELSE Resolved([f EXCEPT !.db = "closed"], ReadValue(f))]
             /\ idbConfigs' = IF o = "success" /\ f.op = "deleteProviderConfig"
                              THEN {c \in idbConfigs : c.id # f.arg}
                              ELSE idbConfigs
             /\ idbProfiles' = IF o = "success" /\ f.op = "deleteProfile"
                               THEN {p \in idbProfiles : p.id # f.arg}
                               ELSE idbProfiles
  /\ UNCHANGED <<indexedDBDefined, objectStoreNames, idbMeta, indexedDBSchemaValid, calls>>
  /\ AdapterUnchanged

\* transaction.oncomplete = () => { db.close(); resolve() }
AdapterTxComplete(t) ==
  /\ task[t].pc = "a_complete"
  /\ task' = [task EXCEPT ![t] = Resolved([task[t] EXCEPT !.db = "closed"], "undefined")]
  /\ UNCHANGED <<idbVars, indexedDBSchemaValid, calls, faults>>
  /\ AdapterUnchanged

NextAdapter ==
  \/ \E t \in SeqTasks : ValidatorCall(t)
  \/ \E t \in SeqTasks : ValidatorOpenSettled(t)
  \/ \E t \in SeqTasks : ValidatorLateSuccess(t)
  \/ \E t \in SeqTasks : AdapterCall(t)
  \/ \E t \in SeqTasks : AdapterOpenSettled(t)
  \/ \E t \in SeqTasks : AdapterRequestSettled(t)
  \/ \E t \in SeqTasks : AdapterTxComplete(t)

SpecAdapter == InitAdapter /\ [][NextAdapter]_vars

(***************************************************************************)
(* The encrypted field codec.  A string is a sequence of UTF-16 code       *)
(* units, a buffer a sequence of bytes, a base64 text a sequence of        *)
(* sextets in which 64 stands for the padding character.                   *)
(***************************************************************************)
\* Longest plaintext, in code units.
MaxChars == 3

\* "A", e-acute, the euro sign, U+FEFF, and the two halves of U+1F600.
CodeUnits == {65, 233, 8364, 65279, 55357, 56832}

Plaintexts == UNION {[1..n -> CodeUnits] : n \in 0..MaxChars}

IsHighSurrogate(u) == u >= 55296 /\ u <= 56319
IsLowSurrogate(u) == u >= 56320 /\ u <= 57343

\* The UTF-8 bytes of one code point.
Utf8Bytes(cp) ==
  IF cp < 128 THEN <<cp>>
  ELSE IF cp < 2048 THEN <<192 + (cp \div 64), 128 + (cp % 64)>>
  ELSE IF cp < 65536
       THEN <<224 + (cp \div 4096), 128 + ((cp \div 64) % 64), 128 + (cp % 64)>>
       ELSE <<240 + (cp \div 262144), 128 + ((cp \div 4096) % 64),
              128 + ((cp \div 64) % 64), 128 + (cp % 64)>>

\* new TextEncoder().encode(s): a surrogate pair is one code point, a
\* surrogate without its partner is encoded as U+FFFD.
RECURSIVE TextEncode(_)
TextEncode(str) ==
  IF str = <<>> THEN <<>>
  ELSE LET u == Head(str)
       IN IF IsHighSurrogate(u) /\ Len(str) >= 2 /\ IsLowSurrogate(str[2])
          THEN Utf8Bytes(65536 + (u - 55296) * 1024 + (str[2] - 56320))
                 \o TextEncode(Tail(Tail(str)))
          ELSE IF IsHighSurrogate(u) \/ IsLowSurrogate(u)
               THEN Utf8Bytes(65533) \o TextEncode(Tail(str))
               ELSE Utf8Bytes(u) \o TextEncode(Tail(str))

\* The code units of one code point.
Utf16Units(cp) ==
  IF cp < 65536 THEN <<cp>>
  ELSE <<55296 + ((cp - 65536) \div 1024), 56320 + ((cp - 65536) % 1024)>>

\* UTF-8 decoding with U+FFFD for a byte that starts no sequence.
RECURSIVE Utf8Decode(_)
Utf8Decode(b) ==
  IF b = <<>> THEN <<>>
  ELSE LET h == Head(b)
       IN IF h < 128 THEN <<h>> \o Utf8Decode(Tail(b))
          ELSE IF h >= 192 /\ h < 224 /\ Len(b) >= 2
               THEN Utf16Units((h - 192) * 64 + (b[2] - 128))
                      \o Utf8Decode(SubSeq(b, 3, Len(b)))
          ELSE IF h >= 224 /\ h < 240 /\ Len(b) >= 3
               THEN Utf16Units((h - 224) * 4096 + (b[2] - 128) * 64 + (b[3] - 128))
                      \o Utf8Decode(SubSeq(b, 4, Len(b)))
          ELSE IF h >= 240 /\ h < 248 /\ Len(b) >= 4
               THEN Utf16Units((h - 240) * 262144 + (b[2] - 128) * 4096
                                 + (b[3] - 128) * 64 + (b[4] - 128))
                      \o Utf8Decode(SubSeq(b, 5, Len(b)))
          ELSE <<65533>> \o Utf8Decode(Tail(b))

\* new TextDecoder().decode(b): a leading byte order mark is dropped.
TextDecode(b) ==
  IF Len(b) >= 3 /\ SubSeq(b, 1, 3) = <<239, 187, 191>>
  THEN Utf8Decode(SubSeq(b, 4, Len(b)))
  ELSE Utf8Decode(b)

\* btoa(String.fromCharCode(...bytes))
RECURSIVE Btoa(_)
Btoa(b) ==
  IF b = <<>> THEN <<>>
  ELSE IF Len(b) = 1 THEN <<b[1] \div 4, (b[1] % 4) * 16, 64, 64>>
  ELSE IF Len(b) = 2
       THEN <<b[1] \div 4, (b[1] % 4) * 16 + (b[2] \div 16), (b[2] % 16) * 4, 64>>
       ELSE <<b[1] \div 4, (b[1] % 4) * 16 + (b[2] \div 16),
              (b[2] % 16) * 4 + (b[3] \div 64), b[3] % 64>>
              \o Btoa(SubSeq(b, 4, Len(b)))

\* new Uint8Array(atob(text).split("").map((c) => c.charCodeAt(0)))
RECURSIVE Atob(_)
Atob(x) ==
  IF Len(x) < 4 THEN <<>>
  ELSE LET b1 == x[1] * 4 + (x[2] \div 16)
           b2 == (x[2] % 16) * 16 + (x[3] \div 4)
           b3 == (x[3] % 4) * 64 + x[4]
       IN IF x[3] = 64 THEN <<b1>>
          ELSE IF x[4] = 64 THEN <<b1, b2>>
          ELSE <<b1, b2, b3>> \o Atob(SubSeq(x, 5, Len(x)))

\* The bytes of "codelessshipmore-ai-settings-v1".
KeyName ==
  <<99, 111, 100, 101, 108, 101, 115, 115, 115, 104, 105, 112,
     109, 111, 114, 101, 45, 97, 105, 45, 115, 101, 116, 116,
     105, 110, 103, 115, 45, 118, 49>>

\* str.padEnd(n, "0") of an ASCII string given by its bytes.
PadEnd(str, n) == [i \in 1..(IF Len(str) > n THEN Len(str) ELSE n) |->
                     IF i <= Len(str) THEN str[i] ELSE 48]

\* getEncryptionKey(): the raw key material handed to importKey.
EncryptionKey == PadEnd(KeyName, 32)

\* crypto.getRandomValues(new Uint8Array(12)): three of the possible draws.
RandomIvs == {[i \in 1..12 |-> 0], [i \in 1..12 |-> 255],
              [i \in 1..12 |-> (37 * i) % 256]}

RECURSIVE SumBytes(_)
SumBytes(b) == IF b = <<>> THEN 0 ELSE Head(b) + SumBytes(Tail(b))

\* The cipher is the platform's; it is modelled as a keyed, invertible
\* byte transformation followed by a 16-byte authentication tag.
KeyStream(key, iv, i) ==
  (key[((i - 1) % Len(key)) + 1] + iv[((i - 1) % Len(iv)) + 1] + i) % 256

AuthTag(key, iv, c) ==
  [j \in 1..16 |-> (SumBytes(c) + key[j] + iv[((j - 1) % Len(iv)) + 1]) % 256]

\* crypto.subtle.encrypt({ name: "AES-GCM", iv }, key, encodedData)
SubtleEncrypt(key, iv, data) ==
  LET c == [i \in 1..Len(data) |-> (data[i] + KeyStream(key, iv, i)) % 256]
  IN c \o AuthTag(key, iv, c)

\* crypto.subtle.decrypt({ name: "AES-GCM", iv }, key, data): the plaintext
\* bytes, or a rejection when the tag does not authenticate the data.
SubtleDecrypt(key, iv, buf) ==
  IF Len(buf) < 16 \/ Len(iv) = 0 THEN [ok |-> FALSE, bytes |-> <<>>]
  ELSE LET c == SubSeq(buf, 1, Len(buf) - 16)
       IN IF SubSeq(buf, Len(buf) - 15, Len(buf)) # AuthTag(key, iv, c)
          THEN [ok |-> FALSE, bytes |-> <<>>]
          ELSE [ok |-> TRUE,
                bytes |-> [i \in 1..Len(c) |->
                             (c[i] + 256 - KeyStream(key, iv, i)) % 256]]

NoEnvelope == [iv |-> <<>>, data |-> <<>>]

\* The frame of a caller that runs decrypt(await encrypt(plaintext)).
CodecFrame ==
  [pc |-> "idle", plaintext |-> <<>>, key |-> <<>>, iv |-> <<>>,
   buffer |-> <<>>, envelope |-> NoEnvelope, decrypted |-> <<>>, threw |-> FALSE]

InitCodec ==
  /\ indexedDBDefined = FALSE
  /\ objectStoreNames = {}
  /\ idbProfiles = {}
  /\ idbConfigs = {}
  /\ idbMeta = NoMeta
  /\ indexedDBSchemaValid = FALSE
  /\ loadPending = FALSE
  /\ lsAvailable = TRUE
  /\ lsVersion = 0
  /\ lsProfiles = <<>>
  /\ lsConfigs = <<>>
  /\ lsMeta = [active_profile_id |-> 0, schema_version |-> -1]
  /\ task = [t \in Tasks |-> CodecFrame]
  /\ calls = 0
  /\ lastTx = NoTx
  /\ lastProbe = NoProbe
  /\ faults = 0

CodecUnchanged ==
  UNCHANGED <<indexedDBDefined, objectStoreNames, idbProfiles, idbConfigs,
              idbMeta, indexedDBSchemaValid, loadPending, lsAvailable,
              lsVersion, lsProfiles, lsConfigs, lsMeta, lastTx, lastProbe,
              faults>>

\* encrypt(plaintext) is called: const key = await getEncryptionKey()
EncryptCall(t) ==
  /\ task[t].pc = "idle"
  /\ calls < MaxCalls
  /\ \E str \in Plaintexts :
       task' = [task EXCEPT ![t] = [CodecFrame EXCEPT !.pc = "e_getKey",
                                                      !.plaintext = str]]
  /\ calls' = calls + 1
  /\ CodecUnchanged

\* The key is imported: the iv is drawn, the plaintext encoded, and
\* crypto.subtle.encrypt awaited.
EncryptKeyed(t) ==
  /\ task[t].pc = "e_getKey"
  /\ \E iv \in RandomIvs :
       task' = [task EXCEPT ![t].pc = "e_encrypt",
                            ![t].key = EncryptionKey,
                            ![t].iv = iv,
                            ![t].buffer = TextEncode(task[t].plaintext)]
  /\ UNCHANGED calls
  /\ CodecUnchanged

\* return { iv: btoa(...iv), data: btoa(...new Uint8Array(encryptedBuffer)) }
EncryptReturn(t) ==
  /\ task[t].pc = "e_encrypt"
  /\ task' = [task EXCEPT
       ![t].pc = "e_done",
       ![t].envelope =
          [iv |-> Btoa(task[t].iv),
           data |-> Btoa(SubtleEncrypt(task[t].key, task[t].iv, task[t].buffer))],
       ![t].key = <<>>, ![t].iv = <<>>, ![t].buffer = <<>>]
  /\ UNCHANGED calls
  /\ CodecUnchanged

\* decrypt(encrypted) is called on the envelope: await getEncryptionKey()
DecryptCall(t) ==
  /\ task[t].pc = "e_done"
  /\ task' = [task EXCEPT ![t].pc = "d_getKey"]
  /\ UNCHANGED calls
  /\ CodecUnchanged

\* The key is imported: iv and data are decoded from base64 and
\* crypto.subtle.decrypt awaited.
DecryptKeyed(t) ==
  /\ task[t].pc = "d_getKey"
  /\ task' = [task EXCEPT ![t].pc = "d_decrypt",
                          ![t].key = EncryptionKey,
                          ![t].iv = Atob(task[t].envelope.iv),
                          ![t].buffer = Atob(task[t].envelope.data)]
  /\ UNCHANGED calls
  /\ CodecUnchanged

\* return new TextDecoder().decode(decryptedBuffer), or the rejection
DecryptReturn(t) ==
  /\ task[t].pc = "d_decrypt"
  /\ LET r == SubtleDecrypt(task[t].key, task[t].iv, task[t].buffer)
     IN task' = [task EXCEPT ![t].pc = "d_done",
                             ![t].threw = ~r.ok,
                             ![t].decrypted = IF r.ok THEN TextDecode(r.bytes)
                                              ELSE <<>>]
  /\ UNCHANGED calls
  /\ CodecUnchanged

\* The caller goes on to its next value.
CodecNext(t) ==
  /\ task[t].pc = "d_done"
  /\ task' = [task EXCEPT ![t] = CodecFrame]
  /\ UNCHANGED calls
  /\ CodecUnchanged

NextCodec ==
  \/ \E t \in SeqTasks : EncryptCall(t)
  \/ \E t \in SeqTasks : EncryptKeyed(t)
  \/ \E t \in SeqTasks : EncryptReturn(t)
  \/ \E t \in SeqTasks : DecryptCall(t)
  \/ \E t \in SeqTasks : DecryptKeyed(t)
  \/ \E t \in SeqTasks : DecryptReturn(t)
  \/ \E t \in SeqTasks : CodecNext(t)

SpecCodec == InitCodec /\ [][NextCodec]_vars


(***************************************************************************)
(* Properties.  T is the frame of the task that runs the calls; a call has *)
(* settled when its pc is "done".                                          *)
(***************************************************************************)
T == task[1]

Done(o) == T.pc = "done" /\ T.op = o

\* The legacy store exists and has all three object stores.
ValidStore == indexedDBDefined /\ RequiredStores \subseteq objectStoreNames

\* The legacy store exists and lacks at least one of them.
MalformedStore == indexedDBDefined /\ ~(RequiredStores \subseteq objectStoreNames)

\* Profiles, plus the provider configs of those profiles, in a snapshot.
LegacyItems(snap) ==
  Cardinality(snap.idbProfiles)
  + Cardinality({c \in snap.idbConfigs : \E p \in snap.idbProfiles : c.profileId = p.id})

\* Metadata entries migrate() writes when all reads succeed: the schema
\* version always, the active profile id when the legacy store has one.
MetadataItems == 1 + (IF idbMeta.active_profile_id # 0 THEN 1 ELSE 0)

\* A migrate() call on a valid legacy store during which no request failed.
CleanMigrate == Done("migrate") /\ lsAvailable /\ ValidStore /\ ~T.ioFailed

NoDuplicates(s, Key(_)) ==
  \A i, j \in 1..Len(s) : Key(s[i]) = Key(s[j]) => i = j

IdOf(r) == r.id

\* C1 as stated: on a valid legacy store where every read and write
\* succeeds, migrate() returns success=true and migratedItems = number of
\* profiles + number of their provider configs, metadata not counted.
C1_ItemsWithoutMetadata ==
  CleanMigrate => /\ T.result.success
                  /\ T.result.migratedItems = LegacyItems(T.pre)

\* C1 amended: on a valid legacy store where every read and write succeeds,
\* migrate() returns success=true and migratedItems = number of profiles +
\* number of their provider configs + 1 for the schema-version metadata entry
\* + 1 if the legacy store has an active-profile-id entry.
C1_ItemsWithMetadata ==
  CleanMigrate => /\ T.result.outcome = "returned"
                  /\ T.result.success
                  /\ T.result.migratedItems = LegacyItems(T.pre) + MetadataItems

\* 2 profiles holding 1 and 2 configs, with both metadata entries: 7 items.
C1_Witness ==
  /\ CleanMigrate
  /\ T.pre.idbProfiles = FullProfiles
  /\ T.pre.idbConfigs = FullConfigs
  /\ idbMeta = FullMeta
  /\ T.result.success
  /\ T.result.migratedItems = 7

\* C2: isMigrationNeeded() returns false whenever the localStorage schema
\* version is >= 2 when it is called, whatever the legacy store holds; so
\* does the needsMigration field of getMigrationStatus().
C2_NotNeededAtTargetVersion ==
  T.pc = "done" /\ T.pre.lsVersion >= TargetVersion =>
    /\ T.op = "isMigrationNeeded" => T.result.outcome = "returned" /\ ~T.result.value
    /\ T.op = "getMigrationStatus" => T.result.outcome = "returned" /\ ~T.result.needsMigration

\* Version 2 with a valid, non-empty legacy store.
C2_Witness ==
  /\ Done("isMigrationNeeded")
  /\ T.pre.lsVersion = 2
  /\ ValidStore
  /\ idbProfiles = FullProfiles
  /\ ~T.ioFailed
  /\ ~T.result.value

\* C3: clearIndexedDB() never calls deleteProfile for a profile whose
\* isDefault is true, and every isDefault profile that was in the legacy
\* store when the call started is still there during and after it.
C3_DefaultProfileKept ==
  \A t \in Tasks :
    /\ \A p \in task[t].deleteProfileCalls : ~p.isDefault
    /\ task[t].op \in {"clearIndexedDB", "migrateAndCleanup"} =>
         \A p \in task[t].pre.idbProfiles : p.isDefault => p \in idbProfiles

\* The non-default profile has been deleted and the default one is the only
\* profile left.
C3_Witness ==
  /\ Done("clearIndexedDB")
  /\ T.pre.idbProfiles = FullProfiles
  /\ T.deleteProfileCalls = {Profile(2, FALSE)}
  /\ idbProfiles = {Profile(1, TRUE)}

\* C4: of two migrate() calls in sequence on the same valid, non-empty
\* legacy store with no failing request, each returns success=true with the
\* migratedItems of a full pass, and the second leaves the profiles, provider
\* configs, metadata and version of the localStorage store as the first
\* left them, with no two profiles of one id and no two configs of one
\* profile and provider.
C4_MigrateTwice ==
  CleanMigrate /\ T.prevOp = "migrate" /\ ~T.prevIoFailed /\ idbProfiles # {} =>
    /\ T.prevResult.success
    /\ T.result.success
    /\ T.prevResult.migratedItems = LegacyItems(T.pre) + MetadataItems
    /\ T.result.migratedItems = T.prevResult.migratedItems
    /\ lsProfiles = T.pre.lsProfiles
    /\ lsConfigs = T.pre.lsConfigs
    /\ lsMeta = T.pre.lsMeta
    /\ lsVersion = T.pre.lsVersion
    /\ idbProfiles \subseteq Range(lsProfiles)
    /\ NoDuplicates(lsProfiles, IdOf)
    /\ NoDuplicates(lsConfigs, ConfigKeyOf)

\* The second of two full passes over 2 profiles and 3 configs.
C4_Witness ==
  /\ CleanMigrate
  /\ T.prevOp = "migrate"
  /\ ~T.prevIoFailed
  /\ T.pre.idbProfiles = FullProfiles
  /\ T.pre.idbConfigs = FullConfigs
  /\ Len(lsProfiles) = 2
  /\ Len(lsConfigs) = 3
  /\ T.result.migratedItems = T.prevResult.migratedItems

\* C5 as stated: when an exception is caught by migrate() after k items have
\* been counted, it returns success=false with migratedItems = k.
C5_PartialCountReported ==
  T.pc = "done" /\ T.op = "migrate" /\ T.caught =>
    /\ ~T.result.success
    /\ T.result.migratedItems = T.countAtCatch

\* C6: a migrate() that returns success=false has not set the localStorage
\* schema version: the version is what it was when the call started.
C6_FailureKeepsVersion ==
  T.pc = "done" /\ T.op \in {"migrate", "migrateAndCleanup"}
    /\ T.result.outcome = "returned" /\ ~T.result.success =>
      /\ ~T.versionSet
      /\ lsVersion = T.pre.lsVersion

\* A failure after some items were written, with the version still below 2.
C6_Witness ==
  /\ Done("migrate")
  /\ ~T.result.success
  /\ T.caught
  /\ T.countAtCatch > 0
  /\ Len(lsProfiles) > 0
  /\ lsVersion < TargetVersion

C7_AfterSuccess ==
  /\ T.pc = "done" /\ T.op = "migrate" /\ T.result.success => lsVersion = TargetVersion
  /\ T.pc = "done" /\ (T.pre.lsVersion = TargetVersion
                       \/ (T.prevOp = "migrate" /\ T.prevResult.success)) =>
       /\ T.op = "isMigrationNeeded" => ~T.result.value
       /\ T.op = "getMigrationStatus" => ~T.result.needsMigration

\* C7: after migrate() returns success=true the localStorage schema version
\* is 2, it stays 2 in every later step, and every isMigrationNeeded() or
\* getMigrationStatus() called from then on reports needsMigration=false.
C7_MigratedStaysMigrated ==
  /\ []C7_AfterSuccess
  /\ [][lsVersion = TargetVersion => lsVersion' = TargetVersion]_vars

\* getMigrationStatus() right after a successful migrate() of a non-empty store.
C7_Witness ==
  /\ Done("getMigrationStatus")
  /\ T.prevOp = "migrate"
  /\ T.prevResult.success
  /\ T.pre.idbProfiles = FullProfiles
  /\ lsVersion = TargetVersion
  /\ ~T.result.needsMigration

\* C8: the validator never throws, and it resolves to true exactly when the
\* open request succeeded and profiles, provider_configs and app_metadata
\* all exist; a missing store, an open error, a blocked open or an exception
\* while reading the store names gives false.
C8_ValidatorVerdict ==
  /\ lastProbe.settled # "threw"
  /\ lastProbe.open # "none" =>
       (lastProbe.value <=> (lastProbe.open = "success"
                             /\ RequiredStores \subseteq objectStoreNames))

\* The open succeeded and exactly one required store is missing.
C8_Witness ==
  /\ lastProbe.open = "success"
  /\ Cardinality(objectStoreNames) = 2
  /\ lastProbe.settled = "resolved"
  /\ ~lastProbe.value

C10_TransactionsGated ==
  /\ lastTx.op \in EngineOps => lastTx.present /\ lastTx.validated
  /\ indexedDBDefined /\ "profiles" \notin objectStoreNames =>
       /\ lastTx.op \notin EngineOps
       /\ ~lastProbe.value
       /\ ~indexedDBSchemaValid

\* getMigrationStatus() on a store that opens but has no profiles table.
C10_Witness ==
  /\ objectStoreNames = {"provider_configs", "app_metadata"}
  /\ Done("getMigrationStatus")
  /\ lastProbe.open = "success"
  /\ ~lastProbe.value
  /\ lastTx = NoTx

\* C11: isMigrationNeeded() always returns and never throws; when one of
\* its steps raised an exception it has called setSchemaVersion(2) in its
\* catch block, whose own failure is ignored, and it returns false.
C11_NeededNeverThrows ==
  Done("isMigrationNeeded") =>
    /\ T.result.outcome = "returned"
    /\ T.result.value => T.catchMark = "none"
    /\ T.catchMark # "none" =>
         /\ T.ioFailed
         /\ ~T.result.value
         /\ T.catchMark = "ok" /\ lsAvailable => lsVersion = TargetVersion /\ T.versionSet
         /\ T.catchMark = "threw" => lsVersion = T.pre.lsVersion

\* A step raised and the write in the catch block raised as well.
C11_Witness ==
  /\ Done("isMigrationNeeded")
  /\ lsAvailable
  /\ T.pre.lsVersion = 0
  /\ T.catchMark = "threw"
  /\ T.result.outcome = "returned"
  /\ ~T.result.value

\* C12: isMigrationNeeded() on an available localStorage store below
\* version 2 returns false when the validator returned false, the adapter
\* is absent, or the legacy store has no profile, and the version is then 2
\* unless the last setSchemaVersion(2) it attempted threw.
C12_NothingToMigrate ==
  /\ Done("isMigrationNeeded")
  /\ lsAvailable
  /\ T.pre.lsVersion < TargetVersion
  /\ \/ ~indexedDBDefined
     \/ T.verdict = "invalid"
     \/ T.verdict = "valid" /\ T.pre.idbProfiles = {}
  => /\ T.result.outcome = "returned"
     /\ ~T.result.value
     /\ T.catchMark # "threw" => lsVersion = TargetVersion /\ T.versionSet

\* Validator true, no profile, no failing request: the version is written.
C12_Witness ==
  /\ Done("isMigrationNeeded")
  /\ lsAvailable
  /\ T.pre.lsVersion = 0
  /\ T.verdict = "valid"
  /\ T.pre.idbProfiles = {}
  /\ ~T.ioFailed
  /\ lsVersion = TargetVersion
  /\ ~T.result.value

\* C13: migrate() on an unavailable localStorage store returns success=false
\* with migratedItems=0 before its first await: the validator has not run,
\* no transaction was started and no delete issued on the legacy store, and
\* both stores and the schema version are as they were at the call.
C13_UnavailableNoEffect ==
  Done("migrate") /\ ~lsAvailable =>
    /\ T.result.outcome = "returned"
    /\ ~T.result.success
    /\ T.result.migratedItems = 0
    /\ T.verdict = "none"
    /\ ~T.validated /\ ~T.versionSet /\ ~T.caught
    /\ lastTx.call < calls
    /\ T.deleteProfileCalls = {} /\ T.deleteConfigCalls = {}
    /\ idbProfiles = T.pre.idbProfiles /\ idbConfigs = T.pre.idbConfigs
    /\ lsProfiles = T.pre.lsProfiles /\ lsConfigs = T.pre.lsConfigs
    /\ lsMeta = T.pre.lsMeta /\ lsVersion = T.pre.lsVersion

\* The legacy store is valid and holds two profiles and three configs.
C13_Witness ==
  /\ Done("migrate")
  /\ ~lsAvailable
  /\ ValidStore
  /\ idbProfiles = FullProfiles
  /\ idbConfigs = FullConfigs
  /\ ~T.result.success

\* C14: migrate() on an available localStorage store, when the validator
\* returned false or the adapter is absent, returns success=false with
\* migratedItems=0, has written no profile, config, metadata or version to
\* localStorage, and has started no transaction and issued no delete on
\* the legacy store.
C14_InvalidNoEffect ==
  Done("migrate") /\ lsAvailable /\ (~indexedDBDefined \/ T.verdict = "invalid") =>
    /\ T.result.outcome = "returned"
    /\ ~T.result.success
    /\ T.result.migratedItems = 0
    /\ ~T.versionSet /\ ~T.caught
    /\ lastTx.call < calls
    /\ T.deleteProfileCalls = {} /\ T.deleteConfigCalls = {}
    /\ idbProfiles = T.pre.idbProfiles /\ idbConfigs = T.pre.idbConfigs
    /\ lsProfiles = T.pre.lsProfiles /\ lsConfigs = T.pre.lsConfigs
    /\ lsMeta = T.pre.lsMeta /\ lsVersion = T.pre.lsVersion

\* The open request of the validator failed on a store that holds data.
C14_Witness ==
  /\ Done("migrate")
  /\ lsAvailable
  /\ T.verdict = "invalid"
  /\ ValidStore
  /\ idbProfiles = FullProfiles
  /\ lastProbe.open = "error"
  /\ ~T.result.success

\* C15: when the migrate() inside migrateAndCleanup() is unsuccessful,
\* migrateAndCleanup() returns the result of migrate() as it is, does not
\* call clearIndexedDB(), issues no delete, and leaves the profiles and
\* provider configs of the legacy store as they were.
C15_FailureReturnedVerbatim ==
  Done("migrateAndCleanup") /\ ~T.mres.success =>
    /\ T.mres.outcome = "returned"
    /\ T.result = T.mres
    /\ ~T.cleanupCalled
    /\ T.deleteProfileCalls = {} /\ T.deleteConfigCalls = {}
    /\ T.clearProfiles = <<>>
    /\ idbProfiles = T.pre.idbProfiles /\ idbConfigs = T.pre.idbConfigs

\* migrate() failed in its catch block, on a legacy store with two profiles.
C15_Witness ==
  /\ Done("migrateAndCleanup")
  /\ ~T.mres.success
  /\ T.caught
  /\ ValidStore
  /\ idbProfiles = FullProfiles
  /\ idbConfigs = FullConfigs
  /\ Len(lsProfiles) > 0

\* C16: when the migrate() inside migrateAndCleanup() succeeds,
\* migrateAndCleanup() calls clearIndexedDB() and returns success=true
\* whether clearIndexedDB() returned or threw; it never throws, and a
\* warning is in the message exactly when the cleanup threw.
C16_CleanupNeverFails ==
  Done("migrateAndCleanup") /\ T.mres.success =>
    /\ T.cleanupCalled
    /\ T.result.outcome = "returned"
    /\ T.result.success
    /\ T.result.warning => T.ioFailed

\* The cleanup threw after the migration of two profiles had succeeded.
C16_Witness ==
  /\ Done("migrateAndCleanup")
  /\ T.mres.success
  /\ T.mres.migratedItems >= 5
  /\ T.result.success
  /\ T.result.warning

\* C17: clearIndexedDB(), when the validator returned false or the adapter
\* is absent, returns without an error, has issued no delete and started no
\* transaction on the legacy store, and leaves its profiles and provider
\* configs as they were.
C17_CleanupSkipped ==
  Done("clearIndexedDB") /\ (~indexedDBDefined \/ T.verdict = "invalid") =>
    /\ T.result.outcome = "returned"
    /\ T.deleteProfileCalls = {} /\ T.deleteConfigCalls = {}
    /\ T.clearProfiles = <<>>
    /\ lastTx.call < calls
    /\ idbProfiles = T.pre.idbProfiles /\ idbConfigs = T.pre.idbConfigs

\* A store that holds profiles and provider configs but has no app_metadata.
C17_Witness ==
  /\ Done("clearIndexedDB")
  /\ T.verdict = "invalid"
  /\ objectStoreNames = {"profiles", "provider_configs"}
  /\ idbProfiles = FullProfiles
  /\ idbConfigs = FullConfigs
  /\ T.result.outcome = "returned"

\* C18: a clearIndexedDB() in which a deleteProfile was rejected returns
\* without an error, and a clearIndexedDB() that returns has called
\* deleteProfile for every non-default profile it enumerated, those after a
\* rejected one included.
C18_DeleteFailureNotFatal ==
  Done("clearIndexedDB") =>
    /\ T.deleteFailed # {} => T.result.outcome = "returned"
    /\ T.deleteFailed \subseteq T.deleteProfileCalls
    /\ T.result.outcome = "returned" =>
         T.deleteProfileCalls = {p \in Range(T.clearProfiles) : ~p.isDefault}

\* The delete of profile 2 was rejected and profile 3 was deleted after it.
C18_Witness ==
  /\ Done("clearIndexedDB")
  /\ T.clearProfiles = SortById(OtherProfiles)
  /\ T.deleteFailed = {Profile(2, FALSE)}
  /\ T.deleteProfileCalls = OtherProfiles
  /\ idbProfiles = {Profile(2, FALSE)}
  /\ T.result.outcome = "returned"

\* C19: exportIndexedDBData(), when the validator returned false or the
\* adapter is absent, throws: it returns no document, and it has started no
\* transaction on the legacy store.
C19_ExportRejects ==
  Done("exportIndexedDBData") /\ (~indexedDBDefined \/ T.verdict = "invalid") =>
    /\ T.result.outcome = "threw"
    /\ T.result.doc = NoResult.doc
    /\ lastTx.call < calls

\* A store that holds profiles but has no provider_configs table.
C19_Witness ==
  /\ Done("exportIndexedDBData")
  /\ T.verdict = "invalid"
  /\ objectStoreNames = {"profiles", "app_metadata"}
  /\ idbProfiles = FullProfiles
  /\ lastProbe.open = "success"
  /\ T.result.outcome = "threw"

\* C20: in the document exportIndexedDBData() returns, no two entries of
\* providers have the same key; each entry holds a provider config of the
\* legacy store under the key "<profileId>:<providerId>" of that config,
\* and of the configs with that key the one enumerated last (highest id);
\* when no request failed there is an entry for every such pair among the
\* configs of the exported profiles.
C20_ProvidersLastWins ==
  Done("exportIndexedDBData") /\ T.result.outcome = "returned" =>
    LET doc == T.result.doc
        KeyOf(c) == ProviderKey(c.profileId, c.providerId)
        found == {c \in idbConfigs : \E p \in Range(doc.profiles) : p.id = c.profileId}
    IN /\ \A e1, e2 \in doc.providers : e1.key = e2.key => e1 = e2
       /\ \A e \in doc.providers :
            /\ e.config \in found
            /\ e.key = KeyOf(e.config)
            /\ \A c \in idbConfigs : KeyOf(c) = e.key => c.id <= e.config.id
       /\ ~T.ioFailed =>
            /\ doc.profiles = SortById(idbProfiles)
            /\ {e.key : e \in doc.providers} = {KeyOf(c) : c \in found}

\* Profile 2 has two configs for "openai"; the entry holds the second.
C20_Witness ==
  /\ Done("exportIndexedDBData")
  /\ T.result.outcome = "returned"
  /\ idbConfigs = SharedConfigs
  /\ T.result.doc.providers =
       {[key |-> ProviderKey(2, "openai"), config |-> Config(4, 2, "openai", "env1")],
        [key |-> ProviderKey(3, "anthropic"), config |-> Config(5, 3, "anthropic", "env2")]}

\* C21 as stated: a getMigrationStatus() call leaves the schema version,
\* profiles, provider configs and metadata of the localStorage store and
\* the contents of the legacy store as they were when it was invoked.
C21_StatusReadOnly ==
  Done("getMigrationStatus") =>
    /\ lsVersion = T.pre.lsVersion
    /\ lsProfiles = T.pre.lsProfiles
    /\ lsConfigs = T.pre.lsConfigs
    /\ lsMeta = T.pre.lsMeta
    /\ idbProfiles = T.pre.idbProfiles
    /\ idbConfigs = T.pre.idbConfigs

\* The localStorage count after the profiles and the configs of the first
\* k of them have been counted.
RECURSIVE LsCounted(_)
LsCounted(k) ==
  IF k = 0 THEN Len(lsProfiles)
  ELSE LsCounted(k - 1) + Len(LsGetProviderConfigsByProfile(lsProfiles[k].id))

\* C22: getMigrationStatus() always returns.  When counting the
\* localStorage items failed, localStorageItems is the count accumulated
\* before the failure; when counting the legacy items failed,
\* indexedDBItems is 0; and each count is complete when its own side did
\* not fail, whatever happened on the other side.
C22_CountingFailuresCaught ==
  Done("getMigrationStatus") =>
    LET r == T.result
    IN /\ r.outcome = "returned"
       /\ r.localStorageAvailable = lsAvailable
       /\ T.lsCountFailed =>
            r.localStorageItems \in {0} \cup {LsCounted(k) : k \in 0..(Len(lsProfiles) - 1)}
       /\ ~T.lsCountFailed /\ lsAvailable => r.localStorageItems = LsCounted(Len(lsProfiles))
       /\ ~lsAvailable => r.localStorageItems = 0
       /\ T.idbCountFailed => r.indexedDBItems = 0
       /\ ~r.indexedDBAvailable => r.indexedDBItems = 0
       /\ ~T.idbCountFailed /\ ~T.probeFailed /\ r.indexedDBAvailable =>
            r.indexedDBItems = LegacyItems(T.pre)

\* The localStorage count failed after two profiles and one config were
\* counted, and the legacy count is complete.
C22_Witness ==
  /\ Done("getMigrationStatus")
  /\ T.lsCountFailed
  /\ ~T.idbCountFailed
  /\ Len(lsProfiles) = 2
  /\ T.result.localStorageItems = 3
  /\ T.result.indexedDBItems = 5

\* C23: every argument migrate() or migrateAndCleanup() has passed to
\* saveProviderConfig carries the profileId, providerId and apiKey of a
\* provider config of the legacy store, the apiKey being "null" or the same
\* envelope, and every provider config in localStorage has the apiKey of a
\* legacy config of its profile and provider.
C23_ApiKeyRelayed ==
  /\ \A t \in Tasks : \A e \in task[t].savedConfigs :
       /\ e.legacy \in task[t].pre.idbConfigs
       /\ e.arg.profileId = e.legacy.profileId
       /\ e.arg.providerId = e.legacy.providerId
       /\ e.arg.apiKey = e.legacy.apiKey
  /\ \A i \in 1..Len(lsConfigs) :
       lsConfigs[i].apiKey \in
         {c.apiKey : c \in {d \in FullConfigs \cup SharedConfigs :
                              ConfigKeyOf(d) = ConfigKeyOf(lsConfigs[i])}}

\* A full pass has relayed one config without a secret and two envelopes.
C23_Witness ==
  /\ Done("migrate")
  /\ T.result.success
  /\ {e.arg.apiKey : e \in T.savedConfigs} = {"env1", "null", "env2"}
  /\ {e.legacy : e \in T.savedConfigs} = FullConfigs
  /\ {lsConfigs[i].apiKey : i \in 1..Len(lsConfigs)} = {"env1", "null", "env2"}

\* C24: a migrate() that finished writing profiles and provider configs and
\* then failed while copying a metadata entry still calls
\* setSchemaVersion(2), and unless that call throws it returns success=true
\* with the version at 2.
C24_MetadataFailureNotFatal ==
  Done("migrate") /\ T.copied /\ T.metaFailed =>
    /\ T.result.outcome = "returned"
    /\ T.versionSet \/ T.markThrew
    /\ ~T.markThrew =>
         /\ T.result.success
         /\ ~T.caught
         /\ lsVersion = TargetVersion
         /\ T.result.migratedItems \in
              {Cardinality(T.savedProfiles) + Cardinality(T.savedConfigs) + k : k \in 0..1}

\* Two profiles and three configs were written, reading the legacy schema
\* version failed, and the migration succeeded with 6 items.
C24_Witness ==
  /\ Done("migrate")
  /\ T.copied
  /\ T.metaFailed
  /\ T.result.success
  /\ T.result.migratedItems = 6
  /\ lsMeta.active_profile_id = 1
  /\ lsMeta.schema_version = -1
  /\ lsVersion = TargetVersion

\* C27: at every moment of a migrate() call, every provider config the
\* call has written to localStorage belongs to a profile the call has
\* written before it.
C27_ProfileBeforeConfigs ==
  \A t \in Tasks : \A e \in task[t].savedConfigs :
    e.arg.profileId \in task[t].savedProfiles

\* During the second loop: both profiles are written, the config of profile
\* 1 is written and those of profile 2 are not yet.
C27_Witness ==
  /\ T.op = "migrate"
  /\ T.pc = "m_saveConfig"
  /\ T.savedProfiles = {1, 2}
  /\ {e.legacy : e \in T.savedConfigs} = {Config(1, 1, "openai", "env1")}

\* C28 (order of the calls): while clearIndexedDB() is still reading or
\* deleting provider configs it has called deleteProfile for no profile,
\* and once it calls deleteProfile it has called deleteProviderConfig for
\* every config of every profile it enumerated, the default profile's
\* included.
C28_ConfigsBeforeProfiles ==
  \A t \in Tasks :
    /\ task[t].pc \in {"c_getProfiles", "c_getConfigs", "c_deleteConfig"} =>
         task[t].deleteProfileCalls = {}
    /\ task[t].deleteProfileCalls # {} =>
         /\ task[t].deleteProfileCalls \subseteq Range(task[t].clearProfiles)
         /\ \A c \in task[t].pre.idbConfigs :
              (\E p \in Range(task[t].clearProfiles) : p.id = c.profileId) /\ ~task[t].probeFailed
                => c \in task[t].deleteConfigCalls

\* C28 (effect): a step that removes a profile from the legacy store
\* removes one none of whose provider configs is still in the store.
C28_ChildrenBeforeParents ==
  [][\A p \in idbProfiles \ idbProfiles' : \A c \in idbConfigs : c.profileId # p.id]_vars

\* Both conjuncts of C28.
C28_ClearOrder == []C28_ConfigsBeforeProfiles /\ C28_ChildrenBeforeParents

\* Profile 3 is deleted after the configs of profiles 2 and 3 were deleted.
C28_Witness ==
  /\ Done("clearIndexedDB")
  /\ T.clearProfiles = SortById(OtherProfiles)
  /\ T.deleteConfigCalls = SharedConfigs
  /\ T.deleteProfileCalls = OtherProfiles
  /\ idbProfiles = {}
  /\ idbConfigs = {}

\* C29: isMigrationNeeded() on a localStorage store below version 2, when
\* the validator returned true, the legacy store holds a profile and no
\* request failed, returns true and has written nothing: the version and
\* the contents of localStorage are as they were.
C29_NeededAndUntouched ==
  /\ Done("isMigrationNeeded")
  /\ T.pre.lsVersion < TargetVersion
  /\ T.verdict = "valid"
  /\ T.pre.idbProfiles # {}
  /\ ~T.ioFailed
  => /\ T.result.outcome = "returned"
     /\ T.result.value
     /\ ~T.versionSet /\ ~T.markThrew /\ T.catchMark = "none"
     /\ lsVersion = T.pre.lsVersion
     /\ lsVersion < TargetVersion
     /\ lsProfiles = T.pre.lsProfiles /\ lsConfigs = T.pre.lsConfigs
     /\ lsMeta = T.pre.lsMeta

\* A fresh localStorage store and a legacy store with a single profile that
\* is not the default.
C29_Witness ==
  /\ Done("isMigrationNeeded")
  /\ lsAvailable
  /\ lsVersion = 0
  /\ T.verdict = "valid"
  /\ idbProfiles = {Profile(2, FALSE)}
  /\ ~T.ioFailed
  /\ T.result.value

\* C30 as stated: every call of an engine operation has run the validator
\* by the time it settles, whatever the version or availability of the
\* localStorage store.
C30_AlwaysValidates ==
  T.pc = "done" /\ T.op \in EngineOps => T.verdict # "none"

\* The awaits at which an operation waits for the validator.
ValidatePcs == {"n_validate", "m_validate", "c_validate", "g_validate", "e_validate"}

\* Which settled calls have run the validator: clearIndexedDB,
\* getMigrationStatus and exportIndexedDBData always; migrate and
\* migrateAndCleanup exactly when localStorage is available;
\* isMigrationNeeded only below version 2, and then always unless reading
\* the version threw.
C30_Verdicts ==
  T.pc = "done" =>
    /\ T.op \in {"clearIndexedDB", "getMigrationStatus", "exportIndexedDBData"} =>
         T.verdict # "none"
    /\ T.op \in {"migrate", "migrateAndCleanup"} => (T.verdict # "none" <=> lsAvailable)
    /\ T.op = "isMigrationNeeded" =>
         /\ T.verdict # "none" => T.pre.lsVersion < TargetVersion
         /\ T.verdict = "none" => T.pre.lsVersion >= TargetVersion \/ T.catchMark # "none"

\* A step in which an operation gets the verdict of the validator: the
\* verdict is that of a new probe of the store, and the flag is set to it.
C30_FlagRefresh ==
  \A t \in Tasks :
    task[t].pc \in ValidatePcs /\ task'[t].pc # task[t].pc =>
      /\ lastProbe'.value = (lastProbe'.open = "success" /\ HasAllStores(objectStoreNames))
      /\ indexedDBSchemaValid' = lastProbe'.value
      /\ task'[t].verdict = IF lastProbe'.value THEN "valid" ELSE "invalid"

\* C30: an engine operation runs the validator and sets the shared flag to
\* its verdict on every call that gets past its localStorage precheck
\* (version below 2 for isMigrationNeeded, availability for migrate and
\* migrateAndCleanup; the other operations have none), and each verdict
\* comes from a new probe of the store.
C30_ValidatesPastPrecheck == []C30_Verdicts /\ [][C30_FlagRefresh]_vars

\* A second exportIndexedDBData() gets a true verdict after the first one
\* threw on a false verdict for the same store.
C30_Witness ==
  /\ Done("exportIndexedDBData")
  /\ T.prevOp = "exportIndexedDBData"
  /\ T.prevResult.outcome = "threw"
  /\ T.prevIoFailed
  /\ lastTx.call = calls
  /\ T.verdict = "valid"
  /\ T.result.outcome = "returned"
  /\ indexedDBSchemaValid

\* C26: whenever decrypt(await encrypt(s)) has returned, decrypt did not
\* throw, its result is s code unit for code unit, and the iv field of the
\* envelope decodes from base64 to exactly 12 bytes.
C26_RoundTrip ==
  T.pc = "d_done" =>
    /\ ~T.threw
    /\ T.decrypted = T.plaintext
    /\ Len(Atob(T.envelope.iv)) = 12


\* What one migrate() call leaves in an empty localStorage store when no
\* request fails: the profiles in key order, then the configs of each
\* profile in turn, the legacy metadata, and the target version.
RECURSIVE ProfilesSaved(_, _)
ProfilesSaved(s, ps) ==
  IF ps = <<>> THEN s ELSE ProfilesSaved(SaveProfile(s, Head(ps)), Tail(ps))

RECURSIVE ConfigsSaved(_, _)
ConfigsSaved(s, cs) ==
  IF cs = <<>> THEN s
  ELSE ConfigsSaved(SaveProviderConfig(s, ConfigArg(Head(cs))), Tail(cs))

RECURSIVE ConfigsSavedByProfile(_, _)
ConfigsSavedByProfile(s, ps) ==
  IF ps = <<>> THEN s
  ELSE ConfigsSavedByProfile(
         ConfigsSaved(s, GetProviderConfigsByProfile("ok", Head(ps).id)), Tail(ps))

SingleMigrate ==
  [profiles |-> ProfilesSaved(<<>>, SortById(idbProfiles)),
   configs |-> ConfigsSavedByProfile(<<>>, SortById(idbProfiles)),
   meta |-> [active_profile_id |-> idbMeta.active_profile_id,
             schema_version |-> idbMeta.schema_version],
   version |-> TargetVersion]

BothMigrated == \A t \in Tasks : task[t].pc = "done" /\ task[t].op = "migrate"

\* C25: under every interleaving of two migrate() calls on a valid legacy
\* store, localStorage never holds two profiles with one id or two provider
\* configs with one (profile, provider) pair, and once both calls have
\* returned, both returned success=true and localStorage holds exactly what a
\* single migrate() call leaves there.
C25_ConcurrentMigrate ==
  /\ NoDuplicates(lsProfiles, IdOf)
  /\ NoDuplicates(lsConfigs, ConfigKeyOf)
  /\ BothMigrated =>
       /\ \A t \in Tasks : /\ task[t].result.outcome = "returned"
                           /\ task[t].result.success
       /\ lsProfiles = SingleMigrate.profiles
       /\ lsConfigs = SingleMigrate.configs
       /\ lsMeta = SingleMigrate.meta
       /\ lsVersion = SingleMigrate.version

\* Both calls have returned after each wrote profiles and provider configs,
\* two of which share a (profile, provider) pair in the legacy store.
C25_Witness ==
  /\ BothMigrated
  /\ \A t \in Tasks : /\ task[t].result.success
                      /\ task[t].savedProfiles # {}
                      /\ Cardinality(task[t].savedConfigs) > Len(lsConfigs)
  /\ Len(lsConfigs) > 0


\* C34: when exportIndexedDBData() has validated the schema, a rejected read
\* of the profiles or of a profile's provider configs makes the call reject
\* with no document, whereas a rejected read of the active profile id or of
\* the schema version is swallowed: the call resolves to a document, which
\* holds every legacy profile when no validator run failed during the call.
C34_ExportFailures ==
  Done("exportIndexedDBData") /\ T.validated =>
    /\ T.readFailed => /\ T.result.outcome = "threw"
                       /\ T.result.doc = NoResult.doc
    /\ T.metaFailed /\ ~T.readFailed =>
         /\ T.result.outcome = "returned"
         /\ ~T.result.doc.metadataRead
         /\ ~T.probeFailed => T.result.doc.profiles = SortById(idbProfiles)

\* An export whose schema-version read was rejected after the active profile
\* id was read resolved to a document with profiles and providers.
C34_Witness ==
  /\ Done("exportIndexedDBData")
  /\ T.validated
  /\ T.metaFailed
  /\ T.result.outcome = "returned"
  /\ T.result.doc.active_profile_id # 0
  /\ Len(T.result.doc.profiles) = 2
  /\ T.result.doc.providers # {}


\* The legacy provider configs that belong to a legacy profile.
OwnedConfigs == {c \in idbConfigs : \E p \in idbProfiles : c.profileId = p.id}

\* C35: whenever migrate() has returned success=true on a legacy store that
\* no call has deleted from, every legacy profile is in localStorage and
\* every provider config of a legacy profile was passed to
\* saveProviderConfig during the call.
C35_SuccessIsComplete ==
  Done("migrate") /\ T.result.success /\ T.pre.idbProfiles = idbProfiles
                  /\ T.pre.idbConfigs = idbConfigs =>
    /\ idbProfiles \subseteq Range(lsProfiles)
    /\ \A c \in OwnedConfigs : \E w \in T.savedConfigs : w.legacy = c


\* No step lowers the Durable schema version.
C36_VersionStep == lsVersion' >= lsVersion

C37_NoDataLoss ==
  T.op = "migrateAndCleanup" =>
    LET deletedProfiles == T.pre.idbProfiles \ idbProfiles
        deletedConfigs == T.pre.idbConfigs \ idbConfigs
    IN /\ deletedProfiles \cup deletedConfigs # {} =>
            T.mres.outcome = "returned" /\ T.mres.success
       /\ \A p \in deletedProfiles : p.id \in T.savedProfiles
       /\ \A c \in deletedConfigs : \E w \in T.savedConfigs : w.legacy = c


\* C38: when a clearIndexedDB() call has settled, a rejection of
\* getAllProfiles, getProviderConfigsByProfile or deleteProviderConfig has
\* ended it with a rejection, no deleteProfile was called and the legacy
\* profiles are the ones it started with; a call in which only deleteProfile
\* requests were rejected returns normally.
C38_ClearAborts ==
  Done("clearIndexedDB") =>
    /\ T.clearAborted # "none" => /\ T.result.outcome = "threw"
                                  /\ T.deleteProfileCalls = {}
                                  /\ idbProfiles = T.pre.idbProfiles
    /\ T.clearAborted = "none" => T.result.outcome = "returned"

\* A clearIndexedDB() that had deleted a provider config was ended by a
\* rejected deleteProviderConfig while a non-default profile was waiting.
C38_Witness ==
  /\ Done("clearIndexedDB")
  /\ T.clearAborted = "deleteProviderConfig"
  /\ T.result.outcome = "threw"
  /\ idbConfigs # T.pre.idbConfigs
  /\ \E p \in idbProfiles : ~p.isDefault


\* C31: whenever the promise of a validator call has resolved, the call does
\* not hold an open connection to the legacy store.
C31_ValidatorCloses ==
  T.op = "hasValidIndexedDBSchema" /\ T.result.outcome = "resolved" => T.db # "open"

\* C32: whenever an adapter operation has settled, the connection it
\* obtained, if any, is closed.
C32_AdapterCloses ==
  T.op \in AdapterMethods /\ T.pc = "done" => T.db # "open"

====
